---- MODULE Spec2Model ----
(***************************************************************************)
(* Sequential identifier allocation of the legal practice management       *)
(* server: the pre('save') hooks of the Case and Invoice models, the       *)
(* unique indexes on caseNumber / invoiceNumber, and the route handlers    *)
(* that create, update and delete these documents.                         *)
(*                                                                         *)
(* Strings are sequences of one-character strings, so that formatting,     *)
(* padding, slicing and regular-expression prefix matching are computed    *)
(* character by character.                                                 *)
(***************************************************************************)
EXTENDS Integers, Sequences, FiniteSets, TLC

VARIABLES cases, invoices, year, lastNow, proc, nextId, allocated, fmtIn, fmtOut,
          users, clients, view, bulk,
          caseDoc, edits, readyState, connectionCache, attempts, reqs,
          messages, assigned, timeEntries, billed

\* The numbering of cases and invoices and the requests that save them.
core == <<cases, invoices, year, lastNow, proc, nextId, allocated, fmtIn, fmtOut>>

\* The users and clients collections, the response of the last read or
\* user request, and the bulk creation request in flight.
\* A case with its timeline and the requests updating it.
timelineVars == <<caseDoc, edits>>

\* The database connection, its cache, the mongoose.connect attempts and the
\* calls in progress.
dbVars == <<readyState, connectionCache, attempts, reqs>>

\* The messages collection; the cases created with their assignment; the
\* time entries and invoices with their derived amounts.
ext == <<timelineVars, dbVars, messages, assigned, timeEntries, billed>>

aux == <<users, clients, view, bulk, ext>>

vars == <<core, aux>>

(***************************************************************************)
(* Bounds of the model.                                                    *)
(***************************************************************************)
\* The number of documents constructed (new Case, new Invoice) in a run
\* with concurrent requests.
MaxDocs == 2

\* The number of documents constructed in a run of one request at a time.
MaxSeqDocs == 3

\* The length of req.body.cases in a bulk request.
MaxBulk == 2

\* The request slots; which slot serves a request is immaterial, so a new
\* request takes the lowest free one.
Procs == {1, 2}

Years == {2024, 2025}

\* Date.now() is hi * 10^4 + lo; the two parts are kept apart because the
\* value (13 decimal digits) does not fit the integers of the checker.
Times ==
  {[hi |-> 176230000, lo |-> 7], [hi |-> 176230000, lo |-> 4321],
   [hi |-> 176230001, lo |-> 7]}

ProbeCounts == {8, 9, 998, 9998, 9999, 10000, 99999}

(***************************************************************************)
(* Strings.                                                                *)
(***************************************************************************)
DigitChars == <<"0", "1", "2", "3", "4", "5", "6", "7", "8", "9">>

RECURSIVE NatToString(_)
\* String(n) for a non-negative integer n.
NatToString(n) ==
  IF n < 10 THEN <<DigitChars[n + 1]>>
  ELSE NatToString(n \div 10) \o <<DigitChars[(n % 10) + 1]>>

RECURSIVE Repeat(_, _)
Repeat(c, k) == IF k <= 0 THEN <<>> ELSE <<c>> \o Repeat(c, k - 1)

\* s.padStart(width, c) for a one-character fill string c.
PadStart(s, width, c) ==
  IF Len(s) >= width THEN s ELSE Repeat(c, width - Len(s)) \o s

\* s.slice(-k) for k > 0.
SliceLast(s, k) ==
  IF Len(s) <= k THEN s ELSE SubSeq(s, Len(s) - k + 1, Len(s))

StartsWith(s, pre) ==
  /\ Len(s) >= Len(pre)
  /\ SubSeq(s, 1, Len(pre)) = pre

\* Date.now().toString(): hi has no leading zeros and hi >= 1.
NowString(t) == NatToString(t.hi) \o PadStart(NatToString(t.lo), 4, "0")

\* The value of a field that was never set.
Undefined == <<"undefined">>

\* !value for a string-typed field.
Falsy(v) == v = Undefined \/ v = <<>>

Kinds == {"Case", "Invoice"}

Prefix(k) == IF k = "Case" THEN <<"C", "A", "S", "E">> ELSE <<"I", "N", "V">>

\* The source text of new RegExp(`^CASE-${year}-`), without the anchor.
YearPrefix(k, y) == Prefix(k) \o <<"-">> \o NatToString(y) \o <<"-">>

(***************************************************************************)
(* The models: schema validation, the pre('save') hooks, the unique index. *)
(***************************************************************************)
Store(k) == IF k = "Case" THEN cases ELSE invoices

\* A count whose pattern leaves the year out: new RegExp(`^PREFIX-`).
CountDocumentsAnyYear(store, k, y) ==
  Cardinality({d \in store : StartsWith(d.num, Prefix(k) \o <<"-">>)})

\* A count that includes the numbers held by the saves in flight, as a
\* counter incremented at allocation would.
CountDocumentsReserving(store, k, y) ==
  Cardinality({d \in store : StartsWith(d.num, YearPrefix(k, y))})
  + Cardinality({p \in Procs : proc[p].pc = "write" /\ proc[p].kind = k
                                /\ StartsWith(proc[p].doc.num, YearPrefix(k, y))})

\* Model.countDocuments({ number: new RegExp(`^PREFIX-${year}-`) })
CountDocuments(store, k, y) ==
  Cardinality({d \in store : StartsWith(d.num, YearPrefix(k, y))})

\* A number formatted from the count itself: String(count).padStart(4, '0').
SequenceNumberFromCount(k, y, count) ==
  YearPrefix(k, y) \o PadStart(NatToString(count), 4, "0")

\* `PREFIX-${year}-${String(count + 1).padStart(4, '0')}`
SequenceNumber(k, y, count) ==
  YearPrefix(k, y) \o PadStart(NatToString(count + 1), 4, "0")

\* The catch branch of the Case hook, in calendar year y at Date.now() = t.
CaseFallbackWhole(y, t) == YearPrefix("Case", y) \o NowString(t)

CaseFallback(y, t) == YearPrefix("Case", y) \o SliceLast(NowString(t), 4)

\* A catch branch that numbers by the size of the collection.
InvoiceFallbackBySize(y, t) ==
  YearPrefix("Invoice", y) \o PadStart(NatToString(Cardinality(invoices) + 1), 4, "0")

InvoiceFallbackStamped(y, t) ==
  YearPrefix("Invoice", y) \o SliceLast(NowString(t), 4)

\* The catch branch of the Invoice hook, in calendar year y.
InvoiceFallback(y, t) == YearPrefix("Invoice", y) \o <<"0", "0", "0", "1">>

FallbackNumber(k, y, t) ==
  IF k = "Case" THEN CaseFallback(y, t) ELSE InvoiceFallback(y, t)

\* A hook that generates a number for every new document.
NeedsNumberWhenNew(k, doc) == doc.isNew

\* A schema without the numbering hook.
NeedsNumberNever(k, doc) == FALSE

\* The condition under which the hook generates a number.
NeedsNumber(k, doc) ==
  IF k = "Case" THEN doc.isNew /\ Falsy(doc.num) ELSE Falsy(doc.num)

\* The built-in validation of save() runs before every pre('save') hook
\* of the schema.  invoiceNumber is required (a required string is rejected
\* when it is undefined or empty); caseNumber is not.  The other required
\* fields are taken to be valid when hasAmount holds: totalAmount is
\* required as well and is computed only by a pre('save') hook.
ValidationFails(k, doc, hasAmount) ==
  k = "Invoice" /\ (Falsy(doc.num) \/ ~hasAmount)

\* A collection without the unique index.
NoUniqueIndex(store, doc) == FALSE

\* The unique index on caseNumber / invoiceNumber: some other document
\* of the collection already holds the same key.
UniqueViolation(store, doc) ==
  \E d \in store : d.id # doc.id /\ d.num = doc.num

(***************************************************************************)
(* Requests in flight.                                                     *)
(***************************************************************************)
NoDoc == [id |-> 0, num |-> Undefined, status |-> "none", isNew |-> FALSE]

NoTime == [hi |-> 0, lo |-> 0]

\* pc: the await the request is suspended at.  given: the number the
\* document carried when save() was called.  via: how the hook came by the
\* number ("kept", "count", "fallback").  year: the year read before the
\* count query.  at: the value of Date.now() read by the catch branch.
Idle ==
  [pc |-> "idle", op |-> "none", kind |-> "Case", doc |-> NoDoc, mod |-> {},
   given |-> Undefined, via |-> "none", year |-> 0, at |-> NoTime,
   result |-> "none", code |-> 0]

\* The status code a route answers once its save has resolved or rejected.
RouteCode(op, result) ==
  CASE op \in {"postCase", "postInvoice"} ->
         IF result = "resolved" THEN 201 ELSE 500
    [] op \in {"putCase", "patchCase"} ->
         IF result = "resolved" THEN 200 ELSE 500
    [] OTHER -> 0

\* The number in the body of a response built from the document:
\* formatCaseResponse(caseItem).caseNumber, or the serialized invoice's
\* invoiceNumber.
ResponseNumber(k, doc) ==
  IF k = "Case" THEN (IF Falsy(doc.num) THEN <<>> ELSE doc.num) ELSE doc.num

\* A response sent without a save.
Answer(op, code) ==
  [Idle EXCEPT !.pc = "done", !.code = code]

\* A route that saves again when save() rejects.
SettledOrRetried(r, result) ==
  IF result = "rejected"
    THEN [r EXCEPT !.pc = "count", !.year = year]
    ELSE [r EXCEPT !.pc = "done", !.year = 0, !.mod = {}, !.given = Undefined,
                   !.at = NoTime, !.result = result,
                   !.code = RouteCode(r.op, result)]

\* save() has settled and the route has answered; the document is the
\* in-memory one the response is built from.
Settled(r, result) ==
  [r EXCEPT !.pc = "done", !.year = 0, !.mod = {}, !.given = Undefined,
            !.at = NoTime, !.result = result, !.code = RouteCode(r.op, result)]

\* doc.save(): validation, then the hook up to its first await.
BeginSave(op, k, doc, mod, validate, hasAmount) ==
  LET r == [Idle EXCEPT !.op = op, !.kind = k, !.doc = doc, !.mod = mod,
                        !.given = doc.num]
  IN
  IF validate /\ ValidationFails(k, doc, hasAmount) THEN Settled(r, "rejected")
  ELSE IF NeedsNumber(k, doc) THEN [r EXCEPT !.pc = "count", !.year = year]
  ELSE [r EXCEPT !.pc = "write", !.via = "kept"]

CanStart(p) ==
  /\ proc[p].pc = "idle"
  /\ \A q \in Procs : q < p => proc[q].pc # "idle"

KnownIds == 1 .. (nextId - 1)

CaseStatusInputs == {"Closed"}

InvoiceStatusInputs == {"Paid"}

\* The values a caller may supply for caseNumber / invoiceNumber.
SuppliedNumbers(k) ==
  IF k = "Case"
    THEN {<<>>, <<"C","A","S","E","-","2","0","2","4","-","0","0","0","2">>}
    ELSE {<<>>, <<"I","N","V","-","2","0","2","4","-","0","0","0","2">>}

(***************************************************************************)
(* Requests that read, and the bulk creation request.                      *)
(***************************************************************************)
\* No response yet.
NoView ==
  [op |-> "none", user |-> 0, target |-> 0, code |-> 0, cases |-> {},
   invoices |-> {}, clients |-> {}]

\* No bulk request in flight.
\* items: req.body.cases.  i: the loop index, from 1.  success, failed: the
\* indices in results.success and results.failed.  ids: the documents the
\* request constructed.  via: what produced the response ("invalid": the
\* validation errors, "error": the outer catch, "results": the counts).
NoBulk ==
  [pc |-> "idle", role |-> "none", items |-> <<>>, i |-> 0, doc |-> NoDoc,
   year |-> 0, success |-> {}, failed |-> {}, ids |-> {}, via |-> "none",
   code |-> 0, body |-> [total |-> 0, created |-> 0, failed |-> 0]]

(***************************************************************************)
(* The parts of the server the numbering does not touch, at rest.          *)
(***************************************************************************)
\* The case the update requests work on, as POST /api/cases leaves it: one
\* timeline event of type filing.  An event carries its type, the two
\* statuses its description names, and createdBy.
NoCase == [status |-> "none", timeline |-> <<>>, v |-> 0, lawyer |-> 0]

CreatedCase ==
  [status |-> "Open",
   timeline |-> <<[type |-> "filing", from |-> "none", to |-> "none", by |-> 2]>>,
   v |-> 0, lawyer |-> 2]

\* No request is updating the case.
\* loaded: the document findById returned.  status, pushed: the status of
\* caseItem and the events pushed onto caseItem.timeline since.
NoEdit ==
  [pc |-> "idle", op |-> "none", user |-> 0, role |-> "none", target |-> 0,
   body |-> [status |-> "none", sets |-> FALSE, timeline |-> <<>>],
   loaded |-> NoCase, status |-> "none", pushed |-> <<>>, code |-> 0]

\* No call of the connection middleware or of connectToDatabase in progress.
\* awaits: the attempt whose promise the call awaits.  got, from: what the
\* await gave ("conn", "error") and the attempt it came from.  out: how the
\* call ended ("next", "503", "returned", "threw").  state: readyState at
\* the call of next().
NoReq == [pc |-> "idle", path |-> "none", awaits |-> 0, got |-> "none",
          from |-> 0, out |-> "none", state |-> -1]

InitTimelineRest ==
  /\ caseDoc = CreatedCase
  /\ edits = [p \in Procs |-> NoEdit]

InitDbRest ==
  /\ readyState = 0
  /\ connectionCache = [conn |-> 0, promise |-> 0]
  /\ attempts = <<>>
  /\ reqs = [p \in Procs |-> NoReq]

InitExt ==
  /\ InitTimelineRest
  /\ InitDbRest
  /\ messages = {}
  /\ assigned = {}
  /\ timeEntries = {}
  /\ billed = {}

(***************************************************************************)
(* Init.                                                                   *)
(***************************************************************************)
Init ==
  /\ cases = {}
  /\ invoices = {}
  /\ year = 2024
  /\ lastNow = [hi |-> 176230000, lo |-> 7]
  /\ proc = [p \in Procs |-> Idle]
  /\ nextId = 1
  /\ allocated = {}
  /\ fmtIn = [kind |-> "Case", year |-> 2024, count |-> 0]
  /\ fmtOut = <<>>
  /\ users = {}
  /\ clients = {}
  /\ view = NoView
  /\ bulk = NoBulk
  /\ InitExt

(***************************************************************************)
(* POST /api/cases                                                         *)
(***************************************************************************)
PostCase(p, pre) ==
  /\ CanStart(p)
  /\ IF pre = "ok"
       THEN /\ proc' = [proc EXCEPT ![p] =
                 BeginSave("postCase", "Case",
                           [id |-> nextId, num |-> Undefined, status |-> "Open",
                            isNew |-> TRUE],
                           {}, TRUE, TRUE)]
            /\ nextId' = nextId + 1
       ELSE /\ proc' = [proc EXCEPT ![p] =
                 Answer("postCase", IF pre = "notSelf" THEN 403 ELSE 400)]
            /\ UNCHANGED nextId
  /\ UNCHANGED <<cases, invoices, year, lastNow, allocated, fmtIn, fmtOut>>
  /\ UNCHANGED aux

(***************************************************************************)
(* POST /api/billing/invoices                                              *)
(***************************************************************************)
PostInvoice(p, pre) ==
  /\ CanStart(p)
  /\ IF pre = "ok"
       THEN /\ proc' = [proc EXCEPT ![p] =
                 BeginSave("postInvoice", "Invoice",
                           [id |-> nextId, num |-> Undefined, status |-> "Draft",
                            isNew |-> TRUE],
                           {}, TRUE, FALSE)]
            /\ nextId' = nextId + 1
       ELSE /\ proc' = [proc EXCEPT ![p] = Answer("postInvoice", 400)]
            /\ UNCHANGED nextId
  /\ UNCHANGED <<cases, invoices, year, lastNow, allocated, fmtIn, fmtOut>>
  /\ UNCHANGED aux

(***************************************************************************)
(* new Model({ number: supplied, ... }).save({ validateBeforeSave })       *)
(* on the exported models, with every other required field supplied.       *)
(***************************************************************************)
ModelSave(p, k, supplied, validate) ==
  /\ CanStart(p)
  /\ proc' = [proc EXCEPT ![p] =
       BeginSave("modelSave", k,
                 [id |-> nextId, num |-> supplied,
                  status |-> IF k = "Case" THEN "Open" ELSE "Draft",
                  isNew |-> TRUE],
                 {}, validate, TRUE)]
  /\ nextId' = nextId + 1
  /\ UNCHANGED <<cases, invoices, year, lastNow, allocated, fmtIn, fmtOut>>
  /\ UNCHANGED aux

(***************************************************************************)
(* The pre('save') hook after its await of countDocuments.                 *)
(***************************************************************************)
\* this.number = ...; next() in the try branch.
Allocated(r, num) ==
  [r EXCEPT !.pc = "write", !.doc.num = num, !.via = "count", !.year = 0]

\* A hook without the catch branch: the rejection of countDocuments
\* rejects save().
Rethrown(r, num, t) == Settled(r, "rejected")

\* this.number = ...; next() in the catch branch.
Caught(r, num, t) ==
  [r EXCEPT !.pc = "write", !.doc.num = num, !.via = "fallback", !.year = 0,
            !.at = t]

\* A hook that reserves its number by inserting the document itself.
CountSucceedsAndInserts(p, history) ==
  /\ proc[p].pc = "count"
  /\ LET r == proc[p]
         num == SequenceNumber(r.kind, r.year,
                               CountDocuments(Store(r.kind), r.kind, r.year))
     IN /\ proc' = [proc EXCEPT ![p] = Allocated(r, num)]
        /\ IF r.kind = "Case"
             THEN cases' = cases \cup {[id |-> r.doc.id, num |-> num, status |-> r.doc.status]}
                  /\ UNCHANGED invoices
             ELSE invoices' = invoices \cup {[id |-> r.doc.id, num |-> num, status |-> r.doc.status]}
                  /\ UNCHANGED cases
  /\ UNCHANGED <<year, lastNow, nextId, allocated, fmtIn, fmtOut>>
  /\ UNCHANGED aux

\* history is TRUE when the run records the numbers allocated so far.
CountSucceeds(p, history) ==
  /\ proc[p].pc = "count"
  /\ LET r == proc[p]
         num == SequenceNumber(r.kind, r.year,
                               CountDocuments(Store(r.kind), r.kind, r.year))
     IN /\ proc' = [proc EXCEPT ![p] = Allocated(r, num)]
        /\ allocated' = IF history
                           THEN allocated \cup {[kind |-> r.kind, num |-> num]}
                           ELSE allocated
  /\ UNCHANGED <<cases, invoices, year, lastNow, nextId, fmtIn, fmtOut>>
  /\ UNCHANGED aux

\* countDocuments rejects; the catch branch reads the clock again.
\* t is the value of Date.now(), which never goes back.
NotBefore(t, u) == u.hi > t.hi \/ (u.hi = t.hi /\ u.lo >= t.lo)

CountFails(p, t) ==
  /\ proc[p].pc = "count"
  /\ NotBefore(lastNow, t)
  /\ lastNow' = t
  /\ LET r == proc[p]
         num == FallbackNumber(r.kind, year, t)
     IN proc' = [proc EXCEPT ![p] = Caught(r, num, t)]
  /\ UNCHANGED <<cases, invoices, year, nextId, allocated, fmtIn, fmtOut>>
  /\ UNCHANGED aux

(***************************************************************************)
(* The write of save(): insertOne for a new document, updateOne of the     *)
(* modified paths for an existing one, under the unique index.             *)
(***************************************************************************)
Stored(doc) == [id |-> doc.id, num |-> doc.num, status |-> doc.status]

Updated(d, r) ==
  [d EXCEPT !.num = IF "num" \in r.mod THEN r.doc.num ELSE d.num,
            !.status = IF "status" \in r.mod THEN r.doc.status ELSE d.status]

WriteResult(store, r) ==
  IF r.doc.isNew
    THEN IF UniqueViolation(store, r.doc) THEN "rejected" ELSE "resolved"
    ELSE IF ~(\E d \in store : d.id = r.doc.id) THEN "rejected"
         ELSE IF "num" \in r.mod /\ UniqueViolation(store, r.doc) THEN "rejected"
         ELSE "resolved"

\* A write that stores the new document whatever the result.
WriteStoreAlways(store, r) ==
  IF r.doc.isNew THEN store \cup {Stored(r.doc)}
  ELSE {IF d.id = r.doc.id THEN Updated(d, r) ELSE d : d \in store}

WriteStore(store, r) ==
  IF WriteResult(store, r) = "rejected" THEN store
  ELSE IF r.doc.isNew THEN store \cup {Stored(r.doc)}
  ELSE {IF d.id = r.doc.id THEN Updated(d, r) ELSE d : d \in store}

Write(p) ==
  /\ proc[p].pc = "write"
  /\ LET r == proc[p] IN
       /\ proc' = [proc EXCEPT ![p] = Settled(r, WriteResult(Store(r.kind), r))]
       /\ IF r.kind = "Case"
            THEN cases' = WriteStore(cases, r) /\ UNCHANGED invoices
            ELSE invoices' = WriteStore(invoices, r) /\ UNCHANGED cases
  /\ UNCHANGED <<year, lastNow, nextId, allocated, fmtIn, fmtOut>>
  /\ UNCHANGED aux

\* The store fails the write (connection lost, timeout): save() rejects
\* and nothing is stored.
WriteFails(p) ==
  /\ proc[p].pc = "write"
  /\ proc' = [proc EXCEPT ![p] = Settled(proc[p], "rejected")]
  /\ UNCHANGED <<cases, invoices, year, lastNow, nextId, allocated, fmtIn, fmtOut>>
  /\ UNCHANGED aux

\* The response has been sent, or the promise of save() has settled.
Finish(p) ==
  /\ proc[p].pc = "done"
  /\ proc' = [proc EXCEPT ![p] = Idle]
  /\ UNCHANGED <<cases, invoices, year, lastNow, nextId, allocated, fmtIn, fmtOut>>
  /\ UNCHANGED aux

(***************************************************************************)
(* PUT /api/cases/:id.  body.status is "none" and body.num is Undefined    *)
(* when the request body does not carry the key.                           *)
(***************************************************************************)
Loaded(d) == [id |-> d.id, num |-> d.num, status |-> d.status, isNew |-> FALSE]

\* Object.assign(caseItem, req.body) and the paths it marks modified.
Assigned(d, body) ==
  [Loaded(d) EXCEPT
     !.num = IF body.num # Undefined THEN body.num ELSE d.num,
     !.status = IF body.status # "none" THEN body.status ELSE d.status]

Modified(d, doc) ==
  {f \in {"num"} : doc.num # d.num} \cup {f \in {"status"} : doc.status # d.status}

PutCase(p, id, body, pre) ==
  /\ CanStart(p)
  /\ proc' = [proc EXCEPT ![p] =
       IF pre = "invalid" THEN Answer("putCase", 400)
       ELSE IF ~(\E d \in cases : d.id = id) THEN Answer("putCase", 404)
       ELSE IF pre = "denied" THEN Answer("putCase", 403)
       ELSE LET d == CHOOSE d \in cases : d.id = id
                doc == Assigned(d, body)
            IN BeginSave("putCase", "Case", doc, Modified(d, doc), TRUE, TRUE)]
  /\ UNCHANGED <<cases, invoices, year, lastNow, nextId, allocated, fmtIn, fmtOut>>
  /\ UNCHANGED aux

(***************************************************************************)
(* PATCH /api/cases/:id/status                                             *)
(***************************************************************************)
PatchCaseStatus(p, id, status, pre) ==
  /\ CanStart(p)
  /\ proc' = [proc EXCEPT ![p] =
       IF pre = "invalid" THEN Answer("patchCase", 400)
       ELSE IF ~(\E d \in cases : d.id = id) THEN Answer("patchCase", 404)
       ELSE IF pre = "denied" THEN Answer("patchCase", 403)
       ELSE LET d == CHOOSE d \in cases : d.id = id
                doc == [Loaded(d) EXCEPT !.status = status]
            IN BeginSave("patchCase", "Case", doc, Modified(d, doc), TRUE, TRUE)]
  /\ UNCHANGED <<cases, invoices, year, lastNow, nextId, allocated, fmtIn, fmtOut>>
  /\ UNCHANGED aux

(***************************************************************************)
(* PATCH /api/billing/invoices/:id/status: findByIdAndUpdate, no hooks.    *)
(***************************************************************************)
PatchInvoiceStatus(p, id, status, valid) ==
  /\ CanStart(p)
  /\ IF valid /\ (\E d \in invoices : d.id = id)
       THEN /\ invoices' = {IF d.id = id THEN [d EXCEPT !.status = status] ELSE d :
                              d \in invoices}
            /\ proc' = [proc EXCEPT ![p] = Answer("patchInvoice", 200)]
       ELSE /\ UNCHANGED invoices
            /\ proc' = [proc EXCEPT ![p] =
                 Answer("patchInvoice", IF valid THEN 404 ELSE 400)]
  /\ UNCHANGED <<cases, year, lastNow, nextId, allocated, fmtIn, fmtOut>>
  /\ UNCHANGED aux

(***************************************************************************)
(* DELETE /api/cases/:id: findByIdAndDelete.                               *)
(***************************************************************************)
DeleteCase(p, id, admin) ==
  /\ CanStart(p)
  /\ IF admin /\ (\E d \in cases : d.id = id)
       THEN /\ cases' = {d \in cases : d.id # id}
            /\ proc' = [proc EXCEPT ![p] = Answer("deleteCase", 200)]
       ELSE /\ UNCHANGED cases
            /\ proc' = [proc EXCEPT ![p] =
                 Answer("deleteCase", IF admin THEN 404 ELSE 403)]
  /\ UNCHANGED <<invoices, year, lastNow, nextId, allocated, fmtIn, fmtOut>>
  /\ UNCHANGED aux

(***************************************************************************)
(* The calendar year read by new Date().getFullYear() moves on.            *)
(***************************************************************************)
NewYear ==
  /\ year + 1 \in Years
  /\ year' = year + 1
  /\ UNCHANGED <<cases, invoices, lastNow, proc, nextId, allocated, fmtIn, fmtOut>>
  /\ UNCHANGED aux

(***************************************************************************)
(* String(count + 1).padStart(4, '0') inside the generated number, for     *)
(* counts that a run cannot reach by creating documents one by one.        *)
(***************************************************************************)
FormatProbe(k, y, count) ==
  /\ fmtIn' = [kind |-> k, year |-> y, count |-> count]
  /\ fmtOut' = SequenceNumber(k, y, count)
  /\ UNCHANGED <<cases, invoices, year, lastNow, proc, nextId, allocated>>
  /\ UNCHANGED aux

(***************************************************************************)
(* Specifications.                                                         *)
(***************************************************************************)
PreChecks == {"ok", "invalid", "noClient", "badLawyer", "notSelf"}

InvoicePreChecks == {"ok", "invalid", "noClient", "noCases"}

Bodies ==
  [status : {"none", "Closed"},
   num : {Undefined, <<"C","A","S","E","-","2","0","2","4","-","0","0","0","2">>}]

UpdatePreChecks == {"ok", "invalid", "denied"}

SaveNumbers(k) == {Undefined} \cup SuppliedNumbers(k)

\* validateBeforeSave; it makes a difference for the Invoice schema only.
SaveOptions(k) == IF k = "Invoice" THEN BOOLEAN ELSE {TRUE}

Quiet == \A p \in Procs : proc[p].pc = "idle"

\* Creations running concurrently, their count queries succeeding or
\* failing, while the clock moves on.
NextCreate ==
  \/ \E p \in Procs, pre \in PreChecks : nextId <= MaxDocs /\ PostCase(p, pre)
  \/ \E p \in Procs, pre \in InvoicePreChecks :
       nextId <= MaxDocs /\ PostInvoice(p, pre)
  \/ \E p \in Procs, k \in Kinds : \E n \in SaveNumbers(k), v \in SaveOptions(k) :
       nextId <= MaxDocs /\ ModelSave(p, k, n, v)
  \/ \E p \in Procs : CountSucceeds(p, FALSE)
  \/ \E p \in Procs, t \in Times : CountFails(p, t)
  \/ \E p \in Procs : Write(p)
  \/ \E p \in Procs : Finish(p)
  \/ NewYear

SpecCreate == Init /\ [][NextCreate]_vars

\* Creations, updates and deletions running concurrently within one year.
Next ==
  \/ \E p \in Procs, pre \in PreChecks : nextId <= MaxDocs /\ PostCase(p, pre)
  \/ \E p \in Procs, pre \in InvoicePreChecks :
       nextId <= MaxDocs /\ PostInvoice(p, pre)
  \/ \E p \in Procs, k \in Kinds : \E n \in SaveNumbers(k) \ {<<>>}, v \in SaveOptions(k) :
       nextId <= MaxDocs /\ ModelSave(p, k, n, v)
  \/ \E p \in Procs : CountSucceeds(p, FALSE)
  \/ \E p \in Procs : CountFails(p, lastNow)
  \/ \E p \in Procs : Write(p)
  \/ \E p \in Procs : Finish(p)
  \/ \E p \in Procs, id \in KnownIds, b \in Bodies, pre \in UpdatePreChecks :
       PutCase(p, id, b, pre)
  \/ \E p \in Procs, id \in KnownIds, s \in CaseStatusInputs,
        pre \in UpdatePreChecks : PatchCaseStatus(p, id, s, pre)
  \/ \E p \in Procs, id \in KnownIds, s \in InvoiceStatusInputs, v \in BOOLEAN :
       PatchInvoiceStatus(p, id, s, v)
  \/ \E p \in Procs, id \in KnownIds, a \in BOOLEAN : DeleteCase(p, id, a)

Spec == Init /\ [][Next]_vars

\* Creations, updates and deletions running concurrently within one year,
\* every count query succeeding.
NextUpdate ==
  \/ \E p \in Procs, pre \in PreChecks : nextId <= MaxDocs /\ PostCase(p, pre)
  \/ \E p \in Procs, pre \in InvoicePreChecks :
       nextId <= MaxDocs /\ PostInvoice(p, pre)
  \/ \E p \in Procs, k \in Kinds : \E n \in SaveNumbers(k) \ {<<>>}, v \in SaveOptions(k) :
       nextId <= MaxDocs /\ ModelSave(p, k, n, v)
  \/ \E p \in Procs : CountSucceeds(p, FALSE)
  \/ \E p \in Procs : Write(p)
  \/ \E p \in Procs : Finish(p)
  \/ \E p \in Procs, id \in KnownIds, b \in Bodies, pre \in UpdatePreChecks :
       PutCase(p, id, b, pre)
  \/ \E p \in Procs, id \in KnownIds, s \in CaseStatusInputs,
        pre \in UpdatePreChecks : PatchCaseStatus(p, id, s, pre)
  \/ \E p \in Procs, id \in KnownIds, s \in InvoiceStatusInputs, v \in BOOLEAN :
       PatchInvoiceStatus(p, id, s, v)
  \/ \E p \in Procs, id \in KnownIds, a \in BOOLEAN : DeleteCase(p, id, a)

SpecUpdate == Init /\ [][NextUpdate]_vars

\* One request at a time, every count query succeeding, no number supplied.
NextSeq ==
  \/ \E p \in Procs : Quiet /\ nextId <= MaxSeqDocs /\ PostCase(p, "ok")
  \/ \E p \in Procs : Quiet /\ nextId <= MaxSeqDocs /\ PostInvoice(p, "ok")
  \/ \E p \in Procs, k \in Kinds : \E v \in SaveOptions(k) :
       Quiet /\ nextId <= MaxSeqDocs /\ ModelSave(p, k, Undefined, v)
  \/ \E p \in Procs : CountSucceeds(p, TRUE)
  \/ \E p \in Procs : Write(p)
  \/ \E p \in Procs : Finish(p)
  \/ NewYear
  \/ \E k \in Kinds, n \in ProbeCounts : FormatProbe(k, year, n)

SpecSeq == Init /\ [][NextSeq]_vars

\* One request at a time, creations and deletions.
NextSeqDel ==
  \/ \E p \in Procs : Quiet /\ nextId <= MaxSeqDocs /\ PostCase(p, "ok")
  \/ \E p \in Procs : Quiet /\ nextId <= MaxSeqDocs /\ PostInvoice(p, "ok")
  \/ \E p \in Procs, k \in Kinds : \E v \in SaveOptions(k) :
       Quiet /\ nextId <= MaxSeqDocs /\ ModelSave(p, k, Undefined, v)
  \/ \E p \in Procs : CountSucceeds(p, TRUE)
  \/ \E p \in Procs : Write(p)
  \/ \E p \in Procs : Finish(p)
  \/ \E p \in Procs, id \in KnownIds : Quiet /\ DeleteCase(p, id, TRUE)

SpecSeqDel == Init /\ [][NextSeqDel]_vars

(***************************************************************************)
(* Role-based reads.  An id-valued query parameter that is absent (or      *)
(* empty, which the handlers treat alike), an id-valued filter path that   *)
(* is not set, and an assignedLawyerId of null are all Null; no document   *)
(* has that id.                                                            *)
(***************************************************************************)
Null == 0

\* The users collection the reading requests run against.
UserDir ==
  {[id |-> 1, role |-> "Admin", email |-> "admin", isActive |-> TRUE],
   [id |-> 2, role |-> "Lawyer", email |-> "l1", isActive |-> TRUE],
   [id |-> 3, role |-> "Lawyer", email |-> "l2", isActive |-> TRUE],
   [id |-> 4, role |-> "Client", email |-> "c1", isActive |-> TRUE],
   [id |-> 5, role |-> "Client", email |-> "c3", isActive |-> TRUE]}

\* The client records that may exist: emails are distinct.
ClientDir ==
  [id : {1}, email : {"c1"}, lawyer : {Null, 2, 3}] \cup
  [id : {2}, email : {"c2"}, lawyer : {Null, 2, 3}]

\* The cases and invoices that may exist, with the fields the reads use.
CaseDir ==
  [id : {1}, num : {SequenceNumber("Case", 2024, 0)}, status : {"Open"},
   clientId : {1}, lawyer : {2}] \cup
  [id : {2}, num : {SequenceNumber("Case", 2024, 1)}, status : {"Open"},
   clientId : {1, 2}, lawyer : {2, 3}]

InvoiceDir ==
  [id : {1, 2}, num : {SequenceNumber("Invoice", 2024, 0)}, status : {"Draft"},
   clientId : {1}] \cup
  [id : {3}, num : {SequenceNumber("Invoice", 2024, 2)}, status : {"Draft"},
   clientId : {2}]

DistinctIds(S) == \A d, e \in S : d.id = e.id => d = e

\* authorize(...roles) of the auth middleware: 403 unless the role is listed.
Authorized(u, roles) == u.role \in roles

\* Client.findOne({ email }): the matching records (at most one).
FindClientByEmail(email) == {c \in clients : c.email = email}

\* The fields of req.query that GET /api/cases reads.
CaseQueries ==
  [clientId : {Null, 1, 2}, assignedLawyerId : {Null, 3},
   status : {"none", "Open"}]

\* Case.find(filter); a path the filter does not set matches anything.
MatchCase(d, f) ==
  /\ f.clientId = Null \/ d.clientId = f.clientId
  /\ f.lawyer = Null \/ d.lawyer = f.lawyer
  /\ f.status = "any" \/ d.status = f.status

\* The filter GET /api/cases builds: the role's restriction first, then
\* the query parameters.
CaseFilter(u, q) ==
  LET own == FindClientByEmail(u.email)
      f0 == [clientId |-> Null, lawyer |-> Null, status |-> "any"]
      f1 == IF u.role = "Client"
              THEN [f0 EXCEPT !.clientId = (CHOOSE c \in own : TRUE).id]
            ELSE IF u.role = "Lawyer" THEN [f0 EXCEPT !.lawyer = u.id]
            ELSE f0
      f2 == IF q.clientId # Null THEN [f1 EXCEPT !.clientId = q.clientId] ELSE f1
      f3 == IF q.assignedLawyerId # Null /\ u.role = "Admin"
              THEN [f2 EXCEPT !.lawyer = q.assignedLawyerId] ELSE f2
  IN IF q.status # "none" THEN [f3 EXCEPT !.status = q.status] ELSE f3

Respond(op, u, target, code) ==
  [NoView EXCEPT !.op = op, !.user = u.id, !.target = target, !.code = code]

\* GET /api/cases
GetCases(u, q) ==
  /\ view' =
       IF u.role = "Client" /\ FindClientByEmail(u.email) = {}
         THEN Respond("getCases", u, 0, 200)
         ELSE [Respond("getCases", u, 0, 200) EXCEPT
                 !.cases = {d \in cases : MatchCase(d, CaseFilter(u, q))}]
  /\ UNCHANGED <<core, users, clients, bulk, ext>>

\* populate(path): the referenced document, or null when it is gone.
Populated(id, coll) == {x \in coll : x.id = id}

\* GET /api/cases/:id
GetCase(u, id) ==
  /\ view' =
       LET found == {d \in cases : d.id = id} IN
       IF found = {} THEN Respond("getCase", u, id, 404)
       ELSE LET d == CHOOSE d \in found : TRUE
                own == FindClientByEmail(u.email)
            IN
            IF u.role = "Client" /\ own = {} THEN Respond("getCase", u, id, 403)
            ELSE IF u.role = "Client" /\ Populated(d.clientId, clients) = {}
              THEN Respond("getCase", u, id, 500)
            ELSE IF u.role = "Client" /\ d.clientId # (CHOOSE c \in own : TRUE).id
              THEN Respond("getCase", u, id, 403)
            ELSE IF u.role = "Lawyer" /\ Populated(d.lawyer, users) = {}
              THEN Respond("getCase", u, id, 500)
            ELSE IF u.role = "Lawyer" /\ d.lawyer # u.id
              THEN Respond("getCase", u, id, 403)
            ELSE [Respond("getCase", u, id, 200) EXCEPT !.cases = {d}]
  /\ UNCHANGED <<core, users, clients, bulk, ext>>

InvoiceQueries == [clientId : {Null, 1, 2}, status : {"none", "Draft"}]

\* The clientId condition GET /api/billing/invoices ends with, as the set
\* of client ids it admits: the query parameter, overwritten for a Client
\* and for a Lawyer.
InvoiceClients(u, q) ==
  IF u.role = "Client" THEN {c.id : c \in FindClientByEmail(u.email)}
  ELSE IF u.role = "Lawyer" THEN {c.id : c \in {x \in clients : x.lawyer = u.id}}
  ELSE IF q.clientId # Null THEN {q.clientId}
  ELSE {d.clientId : d \in invoices}

\* GET /api/billing/invoices
GetInvoices(u, q) ==
  /\ view' =
       IF u.role = "Client" /\ FindClientByEmail(u.email) = {}
         THEN Respond("getInvoices", u, 0, 200)
         ELSE [Respond("getInvoices", u, 0, 200) EXCEPT
                 !.invoices =
                    {d \in invoices :
                       /\ d.clientId \in InvoiceClients(u, q)
                       /\ q.status = "none" \/ d.status = q.status}]
  /\ UNCHANGED <<core, users, clients, bulk, ext>>

ClientQueries == {Null, 2, 3}

\* The filter of GET /api/clients, as the set of clients it matches.
ClientMatches(u, assignedLawyerId) ==
  IF u.role # "Admin" /\ assignedLawyerId = Null
    THEN {c \in clients : c.lawyer = u.id \/ c.lawyer = Null}
  ELSE IF assignedLawyerId # Null
    THEN {c \in clients : c.lawyer = assignedLawyerId}
  ELSE clients

\* GET /api/clients
GetClients(u, assignedLawyerId) ==
  /\ view' =
       IF ~Authorized(u, {"Admin", "Lawyer"}) THEN Respond("getClients", u, 0, 403)
       ELSE [Respond("getClients", u, 0, 200) EXCEPT
               !.clients = ClientMatches(u, assignedLawyerId)]
  /\ UNCHANGED <<core, users, clients, bulk, ext>>

\* GET /api/clients/:id
GetClient(u, id) ==
  /\ view' =
       LET found == {c \in clients : c.id = id} IN
       IF ~Authorized(u, {"Admin", "Lawyer"}) THEN Respond("getClient", u, id, 403)
       ELSE IF found = {} THEN Respond("getClient", u, id, 404)
       ELSE LET c == CHOOSE c \in found : TRUE IN
            IF /\ u.role # "Admin"
               /\ Populated(c.lawyer, users) # {}
               /\ c.lawyer # u.id
              THEN Respond("getClient", u, id, 403)
              ELSE [Respond("getClient", u, id, 200) EXCEPT !.clients = {c}]
  /\ UNCHANGED <<core, users, clients, bulk, ext>>

\* The collections the reads run against.
InitAccess ==
  /\ cases \in {S \in SUBSET CaseDir : DistinctIds(S)}
  /\ invoices \in {S \in SUBSET InvoiceDir : DistinctIds(S) /\ Cardinality(S) <= 2}
  /\ clients \in {S \in SUBSET ClientDir : DistinctIds(S)}
  /\ users = UserDir
  /\ year = 2024
  /\ lastNow = [hi |-> 176230000, lo |-> 7]
  /\ proc = [p \in Procs |-> Idle]
  /\ nextId = 1
  /\ allocated = {}
  /\ fmtIn = [kind |-> "Case", year |-> 2024, count |-> 0]
  /\ fmtOut = <<>>
  /\ view = NoView
  /\ bulk = NoBulk
  /\ InitExt

NextAccess ==
  \/ \E u \in users, q \in CaseQueries : GetCases(u, q)
  \/ \E u \in users, id \in {1, 2, 3} : GetCase(u, id)
  \/ \E u \in users, q \in InvoiceQueries : GetInvoices(u, q)
  \/ \E u \in users, l \in ClientQueries : GetClients(u, l)
  \/ \E u \in users, id \in {1, 2, 3} : GetClient(u, id)

SpecAccess == InitAccess /\ [][NextAccess]_vars

(***************************************************************************)
(* DELETE /api/users/:id                                                   *)
(***************************************************************************)
\* A handler that removes the user document.
DeleteUserRemoves(u, id) ==
  /\ IF ~Authorized(u, {"Admin"})
       THEN view' = Respond("deleteUser", u, id, 403) /\ UNCHANGED users
     ELSE IF ~(\E x \in users : x.id = id)
       THEN view' = Respond("deleteUser", u, id, 404) /\ UNCHANGED users
     ELSE /\ users' = {x \in users : x.id # id}
          /\ view' = Respond("deleteUser", u, id, 200)
  /\ UNCHANGED <<core, clients, bulk, ext>>

\* User.findByIdAndUpdate(id, { isActive: false }, { new: true })
DeleteUser(u, id) ==
  /\ IF ~Authorized(u, {"Admin"})
       THEN view' = Respond("deleteUser", u, id, 403) /\ UNCHANGED users
     ELSE IF ~(\E x \in users : x.id = id)
       THEN view' = Respond("deleteUser", u, id, 404) /\ UNCHANGED users
     ELSE /\ users' = {IF x.id = id THEN [x EXCEPT !.isActive = FALSE] ELSE x :
                         x \in users}
          /\ view' = Respond("deleteUser", u, id, 200)
  /\ UNCHANGED <<core, clients, bulk, ext>>

UserIdInputs == {1, 2, 4, 6}

InitUsers ==
  /\ cases = {}
  /\ invoices = {}
  /\ clients = {}
  /\ users \in {{[u EXCEPT !.isActive = f[u.id]] : u \in UserDir} :
                  f \in [{u.id : u \in UserDir} -> BOOLEAN]}
  /\ year = 2024
  /\ lastNow = [hi |-> 176230000, lo |-> 7]
  /\ proc = [p \in Procs |-> Idle]
  /\ nextId = 1
  /\ allocated = {}
  /\ fmtIn = [kind |-> "Case", year |-> 2024, count |-> 0]
  /\ fmtOut = <<>>
  /\ view = NoView
  /\ bulk = NoBulk
  /\ InitExt

NextUsers ==
  \E u \in users, id \in UserIdInputs : DeleteUser(u, id)

SpecUsers == InitUsers /\ [][NextUsers]_vars

(***************************************************************************)
(* POST /api/cases/bulk.  An item names its client ("known", "unknown": a  *)
(* well-formed id of no client, "malformed": a string that is not an       *)
(* ObjectId) and its lawyer ("self": the requester, "other": another       *)
(* lawyer, "invalid": a user that is neither Lawyer nor Admin, or nobody). *)
(***************************************************************************)
BulkItems == [client : {"known", "unknown", "malformed"},
              lawyer : {"self", "other", "invalid"}]

BulkBodies == UNION {[1 .. n -> BulkItems] : n \in 1 .. MaxBulk}

\* Client.find({ _id: { $in: ids } }) casts every id to ObjectId and
\* rejects with a CastError when one cannot be cast.
CastFails(items) == \E j \in 1 .. Len(items) : items[j].client = "malformed"

\* The checks of one item before its document is built.
ItemError(role, item) ==
  IF item.client # "known" THEN "Client not found"
  ELSE IF item.lawyer = "invalid" THEN "Invalid assigned lawyer"
  ELSE IF role # "Admin" /\ item.lawyer # "self"
    THEN "You can only assign cases to yourself"
  ELSE "none"

\* Validation, then the lookups of the clients and lawyers the body names.
BulkStart(role, items, valid) ==
  /\ bulk.pc = "idle"
  /\ bulk' =
       IF ~valid
         THEN [NoBulk EXCEPT !.pc = "done", !.role = role, !.items = items,
                             !.via = "invalid", !.code = 400]
       ELSE IF CastFails(items)
         THEN [NoBulk EXCEPT !.pc = "done", !.role = role, !.items = items,
                             !.via = "error", !.code = 500]
       ELSE [NoBulk EXCEPT !.pc = "item", !.role = role, !.items = items, !.i = 1]
  /\ UNCHANGED <<core, users, clients, view, ext>>

\* One turn of the loop up to its first await: the item fails a check and
\* the loop continues, or its document is built and save() is called.
BulkItem ==
  /\ bulk.pc = "item" /\ bulk.i <= Len(bulk.items)
  /\ IF ItemError(bulk.role, bulk.items[bulk.i]) # "none"
       THEN /\ bulk' = [bulk EXCEPT !.failed = @ \cup {bulk.i}, !.i = @ + 1]
            /\ UNCHANGED nextId
       ELSE LET doc == [id |-> nextId, num |-> Undefined, status |-> "Open",
                        isNew |-> TRUE]
            IN /\ bulk' = [bulk EXCEPT
                             !.doc = doc, !.ids = @ \cup {nextId}, !.year = year,
                             !.pc = IF NeedsNumber("Case", doc) THEN "count"
                                    ELSE "write"]
               /\ nextId' = nextId + 1
  /\ UNCHANGED <<cases, invoices, year, lastNow, proc, allocated, fmtIn, fmtOut>>
  /\ UNCHANGED <<users, clients, view, ext>>

\* The hook of the item's save(): countDocuments resolves.
BulkCountSucceeds ==
  /\ bulk.pc = "count"
  /\ bulk' = [bulk EXCEPT
                !.pc = "write", !.year = 0,
                !.doc.num = SequenceNumber("Case", bulk.year,
                              CountDocuments(cases, "Case", bulk.year))]
  /\ UNCHANGED <<core, users, clients, view, ext>>

\* The hook of the item's save(): countDocuments rejects.
BulkCountFails(t) ==
  /\ bulk.pc = "count"
  /\ NotBefore(lastNow, t)
  /\ lastNow' = t
  /\ bulk' = [bulk EXCEPT !.pc = "write", !.year = 0,
                          !.doc.num = FallbackNumber("Case", year, t)]
  /\ UNCHANGED <<cases, invoices, year, proc, nextId, allocated, fmtIn, fmtOut>>
  /\ UNCHANGED <<users, clients, view, ext>>

\* The write of the item's save(): the index goes to results.success, or
\* the inner catch puts it in results.failed; the loop continues.
BulkWrite ==
  /\ bulk.pc = "write"
  /\ LET r == [doc |-> bulk.doc, mod |-> {}] IN
       /\ cases' = WriteStore(cases, r)
       /\ bulk' = IF WriteResult(cases, r) = "resolved"
                    THEN [bulk EXCEPT !.pc = "item", !.i = @ + 1,
                                      !.success = @ \cup {bulk.i}]
                    ELSE [bulk EXCEPT !.pc = "item", !.i = @ + 1,
                                      !.failed = @ \cup {bulk.i}]
  /\ UNCHANGED <<invoices, year, lastNow, proc, nextId, allocated, fmtIn, fmtOut>>
  /\ UNCHANGED <<users, clients, view, ext>>

\* The status code after the loop.
BulkStatus(nSuccess, nFailed) ==
  IF nFailed = 0 THEN 201 ELSE IF nSuccess > 0 THEN 207 ELSE 400

\* The response after the loop.
BulkRespond ==
  /\ bulk.pc = "item" /\ bulk.i > Len(bulk.items)
  /\ bulk' = [bulk EXCEPT
                !.pc = "done", !.via = "results",
                !.code = BulkStatus(Cardinality(bulk.success), Cardinality(bulk.failed)),
                !.body = [total |-> Len(bulk.items),
                          created |-> Cardinality(bulk.success),
                          failed |-> Cardinality(bulk.failed)]]
  /\ UNCHANGED <<core, users, clients, view, ext>>

\* One bulk request, with single creations running beside it.
NextBulk ==
  \/ \E role \in {"Admin", "Lawyer"}, items \in BulkBodies, valid \in BOOLEAN :
       BulkStart(role, items, valid)
  \/ BulkItem
  \/ BulkCountSucceeds
  \/ BulkCountFails(lastNow)
  \/ BulkWrite
  \/ BulkRespond
  \/ \E p \in Procs : nextId <= MaxDocs /\ PostCase(p, "ok")
  \/ \E p \in Procs : CountSucceeds(p, FALSE)
  \/ \E p \in Procs : Write(p)
  \/ \E p \in Procs : Finish(p)

SpecBulk == Init /\ [][NextBulk]_vars

\* Concurrent POST /api/cases against a store whose count query and write
\* may fail.
NextGap ==
  \/ \E p \in Procs : nextId <= MaxDocs /\ PostCase(p, "ok")
  \/ \E p \in Procs : CountSucceeds(p, FALSE)
  \/ \E p \in Procs, t \in Times : CountFails(p, t)
  \/ \E p \in Procs : Write(p)
  \/ \E p \in Procs : WriteFails(p)
  \/ \E p \in Procs : Finish(p)

SpecGap == Init /\ [][NextGap]_vars

(***************************************************************************)
(* Reading a number back, independently of the code that formats it.       *)
(***************************************************************************)
DigitValue(c) ==
  CASE c = "0" -> 0 [] c = "1" -> 1 [] c = "2" -> 2 [] c = "3" -> 3
    [] c = "4" -> 4 [] c = "5" -> 5 [] c = "6" -> 6 [] c = "7" -> 7
    [] c = "8" -> 8 [] c = "9" -> 9 [] OTHER -> -1

IsDigits(s) == Len(s) > 0 /\ \A i \in 1 .. Len(s) : DigitValue(s[i]) >= 0

RECURSIVE ParseNat(_)
ParseNat(s) ==
  IF Len(s) = 0 THEN 0
  ELSE 10 * ParseNat(SubSeq(s, 1, Len(s) - 1)) + DigitValue(s[Len(s)])

Dashes(s) == {i \in 1 .. Len(s) : s[i] = "-"}

\* PREFIX-YEAR-SEQ, split at its two dashes.
WellFormed(s) ==
  /\ Cardinality(Dashes(s)) = 2
  /\ LET a == CHOOSE i \in Dashes(s) : \A j \in Dashes(s) : i <= j
         b == CHOOSE i \in Dashes(s) : \A j \in Dashes(s) : i >= j
     IN /\ IsDigits(SubSeq(s, a + 1, b - 1))
        /\ IsDigits(SubSeq(s, b + 1, Len(s)))

Decode(s) ==
  LET a == CHOOSE i \in Dashes(s) : \A j \in Dashes(s) : i <= j
      b == CHOOSE i \in Dashes(s) : \A j \in Dashes(s) : i >= j
  IN [prefix |-> SubSeq(s, 1, a - 1),
      year |-> ParseNat(SubSeq(s, a + 1, b - 1)),
      seq |-> ParseNat(SubSeq(s, b + 1, Len(s))),
      width |-> Len(s) - b]

PrefixOf(k) == IF k = "Case" THEN <<"C", "A", "S", "E">> ELSE <<"I", "N", "V">>

WidthOf(n) ==
  IF n < 10000 THEN 4 ELSE IF n < 100000 THEN 5 ELSE 6

\* s is PREFIX-y-n for kind k, n zero-padded to four digits and not truncated.
IsNumber(s, k, y, n) ==
  /\ WellFormed(s)
  /\ Decode(s) = [prefix |-> PrefixOf(k), year |-> y, seq |-> n, width |-> WidthOf(n)]

\* The documents of kind k persisted with a number of year y.
InYear(k, y) == {d \in Store(k) : WellFormed(d.num) /\ Decode(d.num).year = y}

(***************************************************************************)
(* C1.  One request at a time, every count query succeeding, no number     *)
(* supplied, starting from an empty store: for each kind and each year,    *)
(* the documents are numbered 1, 2, 3, ... in the order of their creation, *)
(* each number written as PREFIX-year-NNNN, zero-padded to four digits,    *)
(* and a creation in flight holds the number after the last persisted      *)
(* one.  The sequence part is not truncated when it needs more than four   *)
(* digits (count 9999 and beyond).                                         *)
(***************************************************************************)
C1_SequentialNumbers ==
  /\ \A k \in Kinds : \A d \in Store(k) :
       /\ WellFormed(d.num)
       /\ LET y == Decode(d.num).year
              rank == Cardinality({e \in InYear(k, y) : e.id <= d.id})
          IN y \in Years /\ IsNumber(d.num, k, y, rank)
  /\ \A p \in Procs : proc[p].pc = "write" =>
       /\ WellFormed(proc[p].doc.num)
       /\ LET k == proc[p].kind
              y == Decode(proc[p].doc.num).year
          IN y \in Years
             /\ IsNumber(proc[p].doc.num, k, y, Cardinality(InYear(k, y)) + 1)
  /\ fmtOut # <<>> =>
       IsNumber(fmtOut, fmtIn.kind, fmtIn.year, fmtIn.count + 1)

C1_Witness ==
  /\ \E d \in cases :
       d.num = <<"C","A","S","E","-","2","0","2","4","-","0","0","0","1">>
  /\ \E d \in cases :
       d.num = <<"C","A","S","E","-","2","0","2","4","-","0","0","0","2">>
  /\ \E d \in invoices :
       d.num = <<"I","N","V","-","2","0","2","4","-","0","0","0","1">>
  /\ fmtOut = <<"I","N","V","-","2","0","2","4","-","1","0","0","0","0">>

(***************************************************************************)
(* C5.  The sequence is scoped per calendar year: the first document of a  *)
(* kind created in a year is numbered PREFIX-year-0001, however many       *)
(* documents of earlier years the store holds, and the number a creation   *)
(* in flight holds counts only the persisted documents of its own year.    *)
(***************************************************************************)
C5_YearScoped ==
  /\ \A k \in Kinds : \A d \in Store(k) :
       (WellFormed(d.num)
          /\ \A e \in InYear(k, Decode(d.num).year) : d.id <= e.id)
       => SubSeq(d.num, Len(d.num) - 4, Len(d.num)) = <<"-", "0", "0", "0", "1">>
  /\ \A p \in Procs : (proc[p].pc = "write" /\ WellFormed(proc[p].doc.num)) =>
       Decode(proc[p].doc.num).seq =
         Cardinality(InYear(proc[p].kind, Decode(proc[p].doc.num).year)) + 1

C5_Witness ==
  /\ \E d \in cases :
       d.num = <<"C","A","S","E","-","2","0","2","4","-","0","0","0","1">>
  /\ \E d \in cases :
       d.num = <<"C","A","S","E","-","2","0","2","4","-","0","0","0","2">>
  /\ \E d \in cases :
       d.num = <<"C","A","S","E","-","2","0","2","5","-","0","0","0","1">>

(***************************************************************************)
(* C2.  Nothing spans the count query and the write: a creation in flight  *)
(* is not counted by another creation's count query.  The number held by   *)
(* a creation in flight is at most one more than the persisted documents   *)
(* of its kind and year, so two creations in flight of the same kind and   *)
(* year whose counts ran on the present store hold the same number.        *)
(***************************************************************************)
Counted(p) ==
  proc[p].pc = "write" /\ proc[p].via = "count" /\ WellFormed(proc[p].doc.num)

Fresh(p) ==
  Decode(proc[p].doc.num).seq =
    Cardinality(InYear(proc[p].kind, Decode(proc[p].doc.num).year)) + 1

C2_InFlightNotCounted ==
  /\ \A p \in Procs : Counted(p) =>
       Decode(proc[p].doc.num).seq <=
         Cardinality(InYear(proc[p].kind, Decode(proc[p].doc.num).year)) + 1
  /\ \A p, q \in Procs :
       (/\ p # q /\ Counted(p) /\ Counted(q)
        /\ proc[p].kind = proc[q].kind
        /\ Decode(proc[p].doc.num).year = Decode(proc[q].doc.num).year
        /\ Fresh(p) /\ Fresh(q))
       => proc[p].doc.num = proc[q].doc.num

C2_Witness ==
  \E p, q \in Procs :
    /\ p # q
    /\ proc[p].pc = "write" /\ proc[q].pc = "write"
    /\ proc[p].via = "count" /\ proc[q].via = "count"
    /\ proc[p].kind = "Case" /\ proc[q].kind = "Case"
    /\ proc[p].doc.id # proc[q].doc.id
    /\ proc[p].doc.num = proc[q].doc.num

(***************************************************************************)
(* C3.  No two persisted documents of the same kind carry the same         *)
(* number, under any interleaving of creations, updates and deletions.     *)
(***************************************************************************)
C3_UniqueNumbers ==
  \A k \in Kinds : \A d, e \in Store(k) : d.id # e.id => d.num # e.num

\* A creation was rejected by the index while the number it computed is
\* persisted on another document.
C3_Witness ==
  \E p \in Procs :
    /\ proc[p].pc = "done" /\ proc[p].op = "postCase" /\ proc[p].result = "rejected"
    /\ cases # {}

(***************************************************************************)
(* C4.  A document that carries a non-empty number when save() is called   *)
(* issues no count query, and the number it goes on to the write with is   *)
(* the number it carried, for both kinds and whatever the store holds.     *)
(***************************************************************************)
C4_KeepsGivenNumber ==
  \A p \in Procs :
    (proc[p].pc \in {"count", "write"} /\ ~Falsy(proc[p].given)) =>
      /\ proc[p].pc = "write"
      /\ proc[p].via = "kept"
      /\ proc[p].doc.num = proc[p].given

C4_Witness ==
  \E p, q \in Procs :
    /\ proc[p].pc = "write" /\ proc[p].kind = "Case" /\ proc[p].via = "kept"
    /\ proc[q].pc = "write" /\ proc[q].kind = "Invoice" /\ proc[q].via = "kept"
    /\ proc[q].doc.isNew
    /\ proc[q].given = <<"I","N","V","-","2","0","2","4","-","0","0","0","2">>
    /\ proc[q].doc.num = proc[q].given
    /\ cases # {}

(***************************************************************************)
(* C6.  Once a document is persisted with a number, no step changes the    *)
(* number of that document.                                                *)
(***************************************************************************)
SameNumbers(before, after) ==
  \A d \in before : \A e \in after : e.id = d.id => e.num = d.num

C6_AssignedOnce ==
  [][SameNumbers(cases, cases') /\ SameNumbers(invoices, invoices')]_vars

(***************************************************************************)
(* C7.  With creations and deletions one after another and a succeeding    *)
(* count query, the number an allocation yields is carried by no persisted *)
(* document of its kind and its sequence is greater than every sequence    *)
(* allocated before it for that kind and year.                             *)
(***************************************************************************)
EarlierSeqs(k, y) ==
  {Decode(a.num).seq : a \in {b \in allocated : b.kind = k /\ Decode(b.num).year = y}}

C7_FreshAndIncreasing ==
  [][\A p \in Procs :
       (proc[p].pc = "count" /\ proc'[p].pc = "write" /\ proc'[p].via = "count")
       => LET k == proc[p].kind
              num == proc'[p].doc.num
          IN /\ \A d \in Store(k) : d.num # num
             /\ \A n \in EarlierSeqs(k, Decode(num).year) : n < Decode(num).seq]_vars

(***************************************************************************)
(* C8.  A creation whose count query fails goes on to the write with a     *)
(* non-empty number: it is not rejected at the count query, and its write  *)
(* is rejected only by the unique index.                                   *)
(***************************************************************************)
C8_FallbackContinues ==
  [][\A p \in Procs :
       /\ proc[p].pc = "count" =>
            /\ proc'[p].pc \in {"count", "write"}
            /\ proc'[p].pc = "write" => ~Falsy(proc'[p].doc.num)
       /\ (/\ proc[p].pc = "write" /\ proc[p].via = "fallback"
           /\ proc'[p] # proc[p]
           /\ \A d \in Store(proc[p].kind) : d.num # proc[p].doc.num)
          => /\ proc'[p].pc = "done" /\ proc'[p].result = "resolved"
             /\ \E d \in (IF proc[p].kind = "Case" THEN cases' ELSE invoices') :
                  d.id = proc[p].doc.id /\ d.num = proc[p].doc.num]_vars

C8_Witness ==
  \E p, q \in Procs :
    /\ proc[p].pc = "done" /\ proc[p].op = "postCase" /\ proc[p].code = 201
    /\ \E d \in cases : d.num = <<"C","A","S","E","-","2","0","2","4","-","0","0","0","7">>
    /\ proc[q].pc = "write" /\ proc[q].kind = "Invoice" /\ proc[q].via = "fallback"
    /\ ~Falsy(proc[q].doc.num)

(***************************************************************************)
(* C9.  The number the catch branch gives a Case is CASE-, the year, a     *)
(* dash and four digits whose value is the timestamp modulo 10000; two     *)
(* Cases in the catch branch at timestamps with the same low four digits   *)
(* in the same year hold the same number.                                  *)
(***************************************************************************)
C9_CaseFallbackFormat ==
  /\ [][\A p \in Procs :
          (/\ proc[p].pc = "count" /\ proc[p].kind = "Case"
           /\ proc'[p].pc = "write" /\ proc'[p].via = "fallback")
          => LET num == proc'[p].doc.num IN
             /\ Len(num) = 14
             /\ SubSeq(num, 1, 5) = <<"C", "A", "S", "E", "-">>
             /\ SubSeq(num, 6, 9) = NatToString(year')
             /\ num[10] = "-"
             /\ IsDigits(SubSeq(num, 11, 14))
             /\ ParseNat(SubSeq(num, 11, 14)) = proc'[p].at.lo % 10000
             /\ proc'[p].at = lastNow']_vars
  /\ [](\A p, q \in Procs :
          (/\ proc[p].pc = "write" /\ proc[p].via = "fallback" /\ proc[p].kind = "Case"
           /\ proc[q].pc = "write" /\ proc[q].via = "fallback" /\ proc[q].kind = "Case"
           /\ proc[p].at.lo = proc[q].at.lo
           /\ SubSeq(proc[p].doc.num, 6, 9) = SubSeq(proc[q].doc.num, 6, 9))
          => proc[p].doc.num = proc[q].doc.num)

C9_Witness ==
  \E p, q \in Procs :
    /\ proc[p].pc = "write" /\ proc[p].via = "fallback" /\ proc[p].kind = "Case"
    /\ proc[q].pc = "write" /\ proc[q].via = "fallback" /\ proc[q].kind = "Case"
    /\ proc[p].doc.id # proc[q].doc.id
    /\ proc[p].at.hi # proc[q].at.hi
    /\ proc[p].at.lo = proc[q].at.lo
    /\ proc[p].doc.num = proc[q].doc.num

(***************************************************************************)
(* C10.  The number the catch branch gives an Invoice is exactly INV-, the *)
(* year and -0001, whatever the invoices collection holds and whatever the *)
(* timestamp is.                                                           *)
(***************************************************************************)
C10_InvoiceFallbackConstant ==
  [][\A p \in Procs :
       (/\ proc[p].pc = "count" /\ proc[p].kind = "Invoice"
        /\ proc'[p].pc = "write" /\ proc'[p].via = "fallback")
       => proc'[p].doc.num =
            <<"I", "N", "V", "-">> \o NatToString(year') \o <<"-", "0", "0", "0", "1">>]_vars

C10_Witness ==
  \E p \in Procs :
    /\ proc[p].pc = "write" /\ proc[p].kind = "Invoice" /\ proc[p].via = "fallback"
    /\ proc[p].at.lo = 4321
    /\ proc[p].doc.num = <<"I","N","V","-","2","0","2","5","-","0","0","0","1">>
    /\ invoices # {}

(***************************************************************************)
(* C11.  Every Invoice save that took the catch branch holds INV-year-0001.*)
(* Its write persists the invoice when no invoice carries that number and  *)
(* is rejected, leaving the collection as it was, when one does; persisted *)
(* invoices keep their numbers.  So once one such invoice is persisted,    *)
(* every later Invoice save of that year that takes the catch branch is    *)
(* rejected.                                                               *)
(***************************************************************************)
InvoiceFallbackInFlight(p) ==
  proc[p].pc = "write" /\ proc[p].kind = "Invoice" /\ proc[p].via = "fallback"

C11_SecondFallbackCollides ==
  /\ [][/\ \A p \in Procs :
            (InvoiceFallbackInFlight(p) /\ proc'[p].pc = "done")
            => LET num == proc[p].doc.num IN
               /\ Len(num) = 13
               /\ SubSeq(num, 1, 4) = <<"I", "N", "V", "-">>
               /\ SubSeq(num, 9, 13) = <<"-", "0", "0", "0", "1">>
               /\ \E d \in invoices' : d.num = num
               /\ IF \E d \in invoices : d.num = num
                    THEN proc'[p].result = "rejected" /\ invoices' = invoices
                    ELSE /\ proc'[p].result = "resolved"
                         /\ \E d \in invoices' : d.id = proc[p].doc.id /\ d.num = num
        /\ \A d \in invoices : \E e \in invoices' : e.id = d.id /\ e.num = d.num]_vars
  /\ [](\A p, q \in Procs :
          (/\ InvoiceFallbackInFlight(p) /\ InvoiceFallbackInFlight(q)
           /\ SubSeq(proc[p].doc.num, 5, 8) = SubSeq(proc[q].doc.num, 5, 8))
          => proc[p].doc.num = proc[q].doc.num)

\* Two Invoice saves took the catch branch: the first is persisted, the
\* second was rejected.
C11_Witness ==
  \E p, q \in Procs :
    /\ proc[p].pc = "done" /\ proc[p].kind = "Invoice" /\ proc[p].via = "fallback"
    /\ proc[p].result = "resolved"
    /\ \E d \in invoices : d.id = proc[p].doc.id /\ d.num = proc[p].doc.num
    /\ proc[q].pc = "done" /\ proc[q].kind = "Invoice" /\ proc[q].via = "fallback"
    /\ proc[q].result = "rejected"
    /\ proc[q].doc.num = proc[p].doc.num
    /\ \A d \in invoices : d.id # proc[q].doc.id

(***************************************************************************)
(* C12.  A request goes from the count query to the write to its response  *)
(* and never back: at most one allocation and one write.  The write of a   *)
(* new document whose number is already persisted is rejected, both        *)
(* collections stay as they were, the document keeps the number it had,    *)
(* and the POST routes answer 500.                                         *)
(***************************************************************************)
Clashes(p) ==
  /\ proc[p].pc = "write" /\ proc[p].doc.isNew
  /\ \E d \in Store(proc[p].kind) : d.num = proc[p].doc.num

C12_NoRetry ==
  [][\A p \in Procs :
       /\ proc[p].pc = "count" => proc'[p].pc \in {"count", "write"}
       /\ proc[p].pc = "write" => proc'[p].pc \in {"write", "done"}
       /\ proc[p].pc = "done" => proc'[p].pc \in {"done", "idle"}
       /\ (Clashes(p) /\ proc'[p] # proc[p])
          => /\ proc'[p].pc = "done" /\ proc'[p].result = "rejected"
             /\ proc'[p].doc = proc[p].doc
             /\ cases' = cases /\ invoices' = invoices
             /\ proc[p].op \in {"postCase", "postInvoice"} => proc'[p].code = 500]_vars

C12_Witness ==
  \E p \in Procs :
    /\ proc[p].pc = "done" /\ proc[p].op = "postCase" /\ proc[p].via = "count"
    /\ proc[p].result = "rejected" /\ proc[p].code = 500
    /\ \E d \in cases : d.num = proc[p].doc.num
    /\ \A d \in cases : d.id # proc[p].doc.id

C14_HookLeavesStore ==
  [][\A p \in Procs :
       /\ (proc[p].pc = "idle" /\ proc'[p].pc \in {"count", "write"})
          => cases' = cases /\ invoices' = invoices
       /\ (proc[p].pc = "count" /\ proc'[p] # proc[p])
          => /\ cases' = cases /\ invoices' = invoices
             /\ proc'[p].doc = [proc[p].doc EXCEPT !.num = proc'[p].doc.num]]_vars

C14_Witness ==
  \E p \in Procs :
    /\ proc[p].pc = "write" /\ proc[p].kind = "Case" /\ proc[p].via = "count"
    /\ proc[p].doc.num # proc[p].given
    /\ cases # {}
    /\ \A d \in cases : d.id # proc[p].doc.id

(***************************************************************************)
(* C15.  When a POST route answers 201, the number in the response body is *)
(* not empty, starts with the prefix of its kind and a year, and is the    *)
(* number of the document with the request's id that the write persisted.  *)
(***************************************************************************)
C15_CreatedCarriesNumber ==
  [][\A p \in Procs :
       (proc[p].pc = "write" /\ proc'[p].pc = "done" /\ proc'[p].code = 201)
       => LET k == proc'[p].kind
              num == ResponseNumber(k, proc'[p].doc)
          IN /\ proc'[p].op \in {"postCase", "postInvoice"}
             /\ num # <<>> /\ num # Undefined
             /\ \E y \in Years : StartsWith(num, YearPrefix(k, y))
             /\ \E d \in (IF k = "Case" THEN cases' ELSE invoices') :
                  d.id = proc'[p].doc.id /\ d.num = num
             /\ \A d \in Store(k) : d.id # proc'[p].doc.id]_vars

C15_Witness ==
  \E p \in Procs :
    /\ proc[p].pc = "done" /\ proc[p].op = "postCase" /\ proc[p].code = 201
    /\ ResponseNumber("Case", proc[p].doc) =
         <<"C","A","S","E","-","2","0","2","5","-","0","0","0","1">>
    /\ \E d \in cases : d.id = proc[p].doc.id /\ d.num = proc[p].doc.num
    /\ Cardinality(cases) = 2

(***************************************************************************)
(* C16.  What GET /api/cases, GET /api/cases/:id and GET /api/billing/     *)
(* invoices return to a user with role Client belongs to the client record *)
(* whose email is the user's email; without such a record they return      *)
(* nothing.                                                                *)
(***************************************************************************)
Viewer == CHOOSE u \in users : u.id = view.user

OwnClientIds(u) == {c.id : c \in {x \in clients : x.email = u.email}}

C16_ClientSeesOwn ==
  (view.op \in {"getCases", "getCase", "getInvoices"} /\ Viewer.role = "Client")
  => /\ \A d \in view.cases : d.clientId \in OwnClientIds(Viewer)
     /\ \A d \in view.invoices : d.clientId \in OwnClientIds(Viewer)

(***************************************************************************)
(* C17.  GET /api/clients returns to a Lawyer only clients assigned to the *)
(* Lawyer or to nobody, and GET /api/clients/:id answers a Lawyer 403 for  *)
(* a client assigned to another lawyer.                                    *)
(***************************************************************************)
C17_LawyerSeesAssigned ==
  (view.op \in {"getClients", "getClient"} /\ Viewer.role = "Lawyer")
  => /\ \A c \in view.clients : c.lawyer \in {Viewer.id, Null}
     /\ (/\ view.op = "getClient"
         /\ \E c \in clients : c.id = view.target /\ c.lawyer \notin {Viewer.id, Null})
        => view.code = 403

C19_BulkCounts ==
  (bulk.pc = "done" /\ bulk.via # "invalid")
  => /\ bulk.via = "results"
     /\ bulk.body.created + bulk.body.failed = bulk.body.total
     /\ bulk.body.total = Len(bulk.items)
     /\ bulk.code = 201 <=> bulk.body.failed = 0
     /\ bulk.code = 207 <=> (bulk.body.created > 0 /\ bulk.body.failed > 0)
     /\ bulk.code = 400 <=> bulk.body.created = 0
     /\ Cardinality({d \in cases : d.id \in bulk.ids}) = bulk.body.created

(***************************************************************************)
(* C20.  When a bulk request that passed validation is answered, every     *)
(* submitted index is in exactly one of the lists successful and failed,   *)
(* and every item that passes the checks had its document built and saved, *)
(* whatever happened to the items before it.                               *)
(***************************************************************************)
C20_BulkIsolation ==
  (bulk.pc = "done" /\ bulk.via # "invalid")
  => /\ \A j \in 1 .. Len(bulk.items) : (j \in bulk.success) # (j \in bulk.failed)
     /\ Cardinality(bulk.ids) =
          Cardinality({j \in 1 .. Len(bulk.items) :
                         ItemError(bulk.role, bulk.items[j]) = "none"})
     /\ Cardinality({d \in cases : d.id \in bulk.ids}) = Cardinality(bulk.success)

(***************************************************************************)
(* PUT /api/cases/:id and PATCH /api/cases/:id/status: the status and the  *)
(* timeline of one case.  save() sends what the request changed: $set for  *)
(* a path whose value differs from the loaded one, $push for events pushed *)
(* onto the loaded array, and for an array that was assigned a $set of the *)
(* whole array under the condition that the version is the loaded one.     *)
(***************************************************************************)
\* The number of times the timeline of the case is written in a run.
MaxEvents == 2

\* The id of the case, and an id of no case.
CaseTargets == {1, 9}

\* The statuses a body may name: three of the enum and one outside it.
StatusInputs == {"Open", "Closed", "OnHold", "Archived"}

ValidStatuses == {"Open", "InProgress", "Closed", "OnHold"}

\* An event a body may carry in req.body.timeline.
NoteEvent == [type |-> "note", from |-> "none", to |-> "none", by |-> 3]

\* req.body of PUT: status and timeline are optional.
PutBodies ==
  [status : StatusInputs \cup {"none"}, sets : {FALSE}, timeline : {<<>>}] \cup
  [status : StatusInputs \cup {"none"}, sets : {TRUE},
   timeline : {<<>>, <<NoteEvent>>}]

\* req.body of PATCH: only status is read.
PatchBodies == [status : StatusInputs \cup {"none"}, sets : {FALSE}, timeline : {<<>>}]

StatusChange(old, new, by) ==
  [type |-> "status_change", from |-> old, to |-> new, by |-> by]

\* body('status').optional().isIn(...) of PUT; body('status').isIn(...) of PATCH.
BodyValid(op, body) ==
  IF op = "put" THEN body.status \in ValidStatuses \cup {"none"}
  ELSE body.status \in ValidStatuses

\* The writes of the timeline still to come from requests in flight.
PendingWrites == Cardinality({p \in Procs : edits[p].pc \in {"find", "save"}})

\* authorize, the validators, and the call of Case.findById.
UpdateStart(p, op, u, id, body) ==
  /\ edits[p].pc = "idle"
  /\ \A q \in Procs : q < p => edits[q].pc # "idle"
  /\ caseDoc.v + PendingWrites < MaxEvents
  /\ edits' = [edits EXCEPT ![p] =
       IF ~Authorized(u, {"Admin", "Lawyer"})
         THEN [NoEdit EXCEPT !.pc = "done", !.op = op, !.code = 403]
       ELSE IF ~BodyValid(op, body)
         THEN [NoEdit EXCEPT !.pc = "done", !.op = op, !.code = 400]
       ELSE [NoEdit EXCEPT !.pc = "find", !.op = op, !.user = u.id,
                           !.role = u.role, !.target = id, !.body = body]]
  /\ UNCHANGED <<caseDoc, core, users, clients, view, bulk, dbVars, messages,
                 assigned, timeEntries, billed>>

\* findById has resolved: the 404 and 403 answers, or the changes the
\* handler makes to caseItem before it calls save().
UpdateLoaded(r) ==
  IF r.target # 1 THEN [NoEdit EXCEPT !.pc = "done", !.op = r.op, !.code = 404]
  ELSE IF r.role # "Admin" /\ caseDoc.lawyer # r.user
    THEN [NoEdit EXCEPT !.pc = "done", !.op = r.op, !.code = 403]
  ELSE [r EXCEPT
          !.pc = "save", !.loaded = caseDoc,
          !.status = IF r.body.status # "none" THEN r.body.status
                     ELSE caseDoc.status,
          !.pushed = IF r.op = "patch" \/ (r.body.status # "none"
                                           /\ r.body.status # caseDoc.status)
                       THEN <<StatusChange(caseDoc.status, r.body.status,
                                           r.user)>>
                       ELSE <<>>]

UpdateFound(p) ==
  /\ edits[p].pc = "find"
  /\ edits' = [edits EXCEPT ![p] = UpdateLoaded(edits[p])]
  /\ UNCHANGED <<caseDoc, core, users, clients, view, bulk, dbVars, messages,
                 assigned, timeEntries, billed>>

\* Object.assign(caseItem, req.body) replaced the array and its value is
\* not the loaded one.
SetsTimeline(r) == r.body.sets /\ r.body.timeline # r.loaded.timeline

\* The update save() sends fails when it is conditioned on the version and
\* the version has moved on.
VersionError(r) == SetsTimeline(r) /\ caseDoc.v # r.loaded.v

\* The document after the update save() sends.
Saved(r) ==
  [caseDoc EXCEPT
     !.status = IF r.status # r.loaded.status THEN r.status ELSE @,
     !.timeline = IF SetsTimeline(r) THEN r.body.timeline
                  ELSE @ \o r.pushed,
     !.v = IF SetsTimeline(r) \/ r.pushed # <<>> THEN @ + 1 ELSE @]

\* caseItem.save() settles and the handler answers.
UpdateSave(p) ==
  /\ edits[p].pc = "save"
  /\ IF VersionError(edits[p])
       THEN /\ edits' = [edits EXCEPT ![p] =
                 [NoEdit EXCEPT !.pc = "done", !.op = edits[p].op, !.code = 500]]
            /\ UNCHANGED caseDoc
       ELSE /\ caseDoc' = Saved(edits[p])
            /\ edits' = [edits EXCEPT ![p] =
                 [NoEdit EXCEPT !.pc = "done", !.op = edits[p].op, !.code = 200]]
  /\ UNCHANGED <<core, users, clients, view, bulk, dbVars, messages,
                 assigned, timeEntries, billed>>

UpdateFinish(p) ==
  /\ edits[p].pc = "done"
  /\ edits' = [edits EXCEPT ![p] = NoEdit]
  /\ UNCHANGED <<caseDoc, core, users, clients, view, bulk, dbVars, messages,
                 assigned, timeEntries, billed>>

NextTimeline ==
  \/ \E p \in Procs, u \in UserDir, id \in CaseTargets, b \in PutBodies :
       UpdateStart(p, "put", u, id, b)
  \/ \E p \in Procs, u \in UserDir, id \in CaseTargets, b \in PatchBodies :
       UpdateStart(p, "patch", u, id, b)
  \/ \E p \in Procs : UpdateFound(p)
  \/ \E p \in Procs : UpdateSave(p)
  \/ \E p \in Procs : UpdateFinish(p)

SpecTimeline == Init /\ [][NextTimeline]_vars

\* timeline s is the beginning of timeline t.
IsPrefix(s, t) == Len(s) <= Len(t) /\ SubSeq(t, 1, Len(s)) = s

(***************************************************************************)
(* C21.  Whenever the persisted status of the case changes, the same save  *)
(* appends one timeline event of type status_change naming the old and the *)
(* new status, and no step removes or alters an event of the timeline.     *)
(***************************************************************************)
C21_StatusChangeRecorded ==
  [][/\ IsPrefix(caseDoc.timeline, caseDoc'.timeline)
     /\ caseDoc'.status # caseDoc.status
          => /\ Len(caseDoc'.timeline) = Len(caseDoc.timeline) + 1
             /\ LET e == caseDoc'.timeline[Len(caseDoc'.timeline)] IN
                  /\ e.type = "status_change"
                  /\ e.from = caseDoc.status
                  /\ e.to = caseDoc'.status]_vars

(***************************************************************************)
(* The database connection: mongoose.connection.readyState (0 disconnected,*)
(* 1 connected, 2 connecting, 3 disconnecting), connectionCache, the       *)
(* mongoose.connect attempts, the connection middleware of /api and        *)
(* connectToDatabase.  MONGODB_URI is taken to be configured.  A promise   *)
(* is the index of its attempt; 0 is null.  The continuation of an await   *)
(* on a settled promise is a microtask: it runs before any new request,    *)
(* timer or connection event.                                              *)
(***************************************************************************)
\* The number of mongoose.connect attempts in a run.
MaxAttempts == 2

\* req.path below /api: the two that skip the check, and one API path.
Paths == {"/health", "/status", "/cases"}

Pending == {a \in 1 .. Len(attempts) : attempts[a] = "pending"}

\* A caller whose awaited promise has settled has yet to resume.
Runnable ==
  \E p \in Procs : reqs[p].pc = "await" /\ attempts[reqs[p].awaits] # "pending"

FreeSlot(p) ==
  /\ reqs[p].pc = "idle"
  /\ \A q \in Procs : q < p => reqs[q].pc # "idle"
  /\ ~Runnable

\* if (connectionCache.conn && mongoose.connection.readyState === 1)
ServesConnection == connectionCache.conn # 0 /\ readyState = 1

\* A connectToDatabase that looks at no cached promise.
AwaitsCachedNever == FALSE

\* if (connectionCache.promise)
AwaitsCached == connectionCache.promise # 0

\* connectToDatabase() up to its first await, called on behalf of r.
\* ended: what r becomes when the cached connection is returned.
Connect(p, r, ended) ==
  IF ServesConnection
    THEN /\ reqs' = [reqs EXCEPT ![p] =
              [ended EXCEPT !.got = "conn", !.from = connectionCache.conn]]
         /\ UNCHANGED <<readyState, connectionCache, attempts>>
  ELSE IF AwaitsCached
    THEN /\ reqs' = [reqs EXCEPT ![p] =
              [r EXCEPT !.pc = "await", !.awaits = connectionCache.promise]]
         /\ UNCHANGED <<readyState, connectionCache, attempts>>
  ELSE /\ Len(attempts) < MaxAttempts
       /\ attempts' = Append(attempts, "pending")
       /\ connectionCache' = [connectionCache EXCEPT !.promise = Len(attempts) + 1]
       /\ readyState' = 2
       /\ reqs' = [reqs EXCEPT ![p] =
            [r EXCEPT !.pc = "await", !.awaits = Len(attempts) + 1]]

Outside == <<core, users, clients, view, bulk, timelineVars, messages, assigned,
             timeEntries, billed>>

\* app.use('/api', ...): a request enters the middleware.
Request(p, path) ==
  /\ FreeSlot(p)
  /\ LET r == [NoReq EXCEPT !.path = path]
         next == [r EXCEPT !.pc = "done", !.out = "next", !.state = readyState]
     IN IF path \in {"/health", "/status"} \/ readyState = 1
          THEN reqs' = [reqs EXCEPT ![p] = next]
               /\ UNCHANGED <<readyState, connectionCache, attempts>>
        ELSE IF readyState = 0
          THEN Connect(p, r, next)
        ELSE IF readyState = 2
          THEN reqs' = [reqs EXCEPT ![p] = [r EXCEPT !.pc = "wait"]]
               /\ UNCHANGED <<readyState, connectionCache, attempts>>
        ELSE reqs' = [reqs EXCEPT ![p] = [r EXCEPT !.pc = "done", !.out = "503"]]
             /\ UNCHANGED <<readyState, connectionCache, attempts>>
  /\ UNCHANGED Outside

\* A call of connectToDatabase() outside the middleware, as initializeServer
\* makes.
Call(p) ==
  /\ FreeSlot(p)
  /\ LET r == [NoReq EXCEPT !.path = "init"]
     IN Connect(p, r, [r EXCEPT !.pc = "done", !.out = "returned"])
  /\ UNCHANGED Outside

\* The await of the promise in connectToDatabase resumes: the connection
\* is cached and returned, or the promise is dropped and the error thrown
\* to the caller (the middleware answers 503).
Resume(p) ==
  /\ reqs[p].pc = "await"
  /\ attempts[reqs[p].awaits] # "pending"
  /\ LET r == reqs[p] IN
       IF attempts[r.awaits] = "resolved"
         THEN /\ connectionCache' = [connectionCache EXCEPT !.conn = r.awaits]
              /\ reqs' = [reqs EXCEPT ![p] =
                   [r EXCEPT !.pc = "done", !.got = "conn", !.from = r.awaits,
                             !.out = IF r.path = "init" THEN "returned" ELSE "next",
                             !.state = IF r.path = "init" THEN -1 ELSE readyState]]
         ELSE /\ connectionCache' = [connectionCache EXCEPT !.promise = 0]
              /\ reqs' = [reqs EXCEPT ![p] =
                   [r EXCEPT !.pc = "done", !.got = "error", !.from = r.awaits,
                             !.out = IF r.path = "init" THEN "threw" ELSE "503"]]
  /\ UNCHANGED <<readyState, attempts>>
  /\ UNCHANGED Outside

\* The loop of the middleware ends: readyState is no longer 2, or maxWait
\* has passed.
Poll(p, timedOut) ==
  /\ reqs[p].pc = "wait"
  /\ ~Runnable
  /\ readyState # 2 \/ timedOut
  /\ reqs' = [reqs EXCEPT ![p] =
       IF readyState = 1
         THEN [@ EXCEPT !.pc = "done", !.out = "next", !.state = readyState]
         ELSE [@ EXCEPT !.pc = "done", !.out = "503"]]
  /\ UNCHANGED <<readyState, connectionCache, attempts>>
  /\ UNCHANGED Outside

\* A .catch() of the connection promise that keeps the promise cached.
ConnectRejectsKeeps(a) ==
  /\ a \in Pending
  /\ ~Runnable
  /\ attempts' = [attempts EXCEPT ![a] = "rejected"]
  /\ readyState' = 0
  /\ UNCHANGED <<connectionCache, reqs>>
  /\ UNCHANGED Outside

\* mongoose.connect resolves; .then() caches the connection.
ConnectResolves(a) ==
  /\ a \in Pending
  /\ ~Runnable
  /\ attempts' = [attempts EXCEPT ![a] = "resolved"]
  /\ readyState' = 1
  /\ connectionCache' = [connectionCache EXCEPT !.conn = a]
  /\ UNCHANGED reqs
  /\ UNCHANGED Outside

\* mongoose.connect rejects; .catch() drops the cached promise.
ConnectRejects(a) ==
  /\ a \in Pending
  /\ ~Runnable
  /\ attempts' = [attempts EXCEPT ![a] = "rejected"]
  /\ readyState' = 0
  /\ connectionCache' = [connectionCache EXCEPT !.promise = 0]
  /\ UNCHANGED reqs
  /\ UNCHANGED Outside

\* The connection is lost ('disconnected').
Disconnected ==
  /\ readyState = 1
  /\ ~Runnable
  /\ readyState' = 0
  /\ UNCHANGED <<connectionCache, attempts, reqs>>
  /\ UNCHANGED Outside

\* The driver re-establishes a connection that was lost ('reconnected').
Reconnected ==
  /\ readyState = 0
  /\ Pending = {}
  /\ \E a \in 1 .. Len(attempts) : attempts[a] = "resolved"
  /\ ~Runnable
  /\ readyState' = 1
  /\ UNCHANGED <<connectionCache, attempts, reqs>>
  /\ UNCHANGED Outside

\* The response is sent, or the route has run.
Leave(p) ==
  /\ reqs[p].pc = "done"
  /\ reqs' = [reqs EXCEPT ![p] = NoReq]
  /\ UNCHANGED <<readyState, connectionCache, attempts>>
  /\ UNCHANGED Outside

NextDb ==
  \/ \E p \in Procs, path \in Paths : Request(p, path)
  \/ \E p \in Procs : Call(p)
  \/ \E p \in Procs : Resume(p)
  \/ \E p \in Procs, t \in BOOLEAN : Poll(p, t)
  \/ \E a \in Pending : ConnectResolves(a)
  \/ \E a \in Pending : ConnectRejects(a)
  \/ Disconnected
  \/ Reconnected
  \/ \E p \in Procs : Leave(p)

SpecDb == Init /\ [][NextDb]_vars

(***************************************************************************)
(* C22.  A request whose path is not /health or /status reaches next()     *)
(* only in a state where readyState is 1.                                  *)
(***************************************************************************)
C22_NextOnlyWhenConnected ==
  \A p \in Procs :
    (reqs[p].out = "next" /\ reqs[p].path \notin {"/health", "/status"})
      => reqs[p].state = 1

(***************************************************************************)
(* C23.  At most one mongoose.connect attempt is pending; every caller     *)
(* waiting on a pending attempt awaits the cached promise; and the callers *)
(* that awaited the same attempt received the same outcome.                *)
(***************************************************************************)
C23_OneAttemptInFlight ==
  /\ Cardinality(Pending) <= 1
  /\ \A p \in Procs :
       (reqs[p].pc = "await" /\ reqs[p].awaits \in Pending)
         => reqs[p].awaits = connectionCache.promise
  /\ \A p, q \in Procs :
       (reqs[p].got # "none" /\ reqs[q].got # "none"
        /\ reqs[p].from = reqs[q].from)
         => reqs[p].got = reqs[q].got

\* Two callers wait on the one pending attempt.
C23_Witness ==
  /\ Cardinality(Pending) = 1
  /\ \A p \in Procs : reqs[p].pc = "await" /\ reqs[p].awaits \in Pending

(***************************************************************************)
(* C24.  When an attempt fails, the cached promise is null afterwards and  *)
(* the cached connection is as it was; a caller that awaited the failed    *)
(* attempt gets the error; no cached promise or connection is that of a    *)
(* failed attempt; and a call that finds the cache empty starts a new      *)
(* attempt.                                                                *)
(***************************************************************************)
C24_FailureNotCached ==
  [][/\ \A a \in Pending :
          attempts'[a] = "rejected"
            => /\ connectionCache'.promise = 0
               /\ connectionCache'.conn = connectionCache.conn
     /\ \A p \in Procs :
          (reqs[p].pc = "await" /\ attempts[reqs[p].awaits] = "rejected"
           /\ reqs'[p] # reqs[p])
            => /\ reqs'[p].got = "error"
               /\ reqs'[p].out \in {"503", "threw"}
     /\ connectionCache'.promise # 0
          => attempts'[connectionCache'.promise] # "rejected"
     /\ connectionCache'.conn # 0
          => attempts'[connectionCache'.conn] = "resolved"
     /\ \A p \in Procs :
          (reqs[p].pc = "idle" /\ reqs'[p].pc = "await"
           /\ connectionCache.promise = 0)
            => /\ Len(attempts') = Len(attempts) + 1
               /\ reqs'[p].awaits = Len(attempts')
               /\ attempts'[Len(attempts')] = "pending"]_vars

\* After a failed attempt whose caller got the error, a second attempt has
\* been started.
C24_Witness ==
  /\ Len(attempts) = 2
  /\ attempts[1] = "rejected"
  /\ attempts[2] = "pending"
  /\ \E p \in Procs : reqs[p].got = "error" /\ reqs[p].from = 1
  /\ \E p \in Procs : reqs[p].pc = "await" /\ reqs[p].awaits = 2

(***************************************************************************)
(* /api/messages.  Every route requires authentication only; a message     *)
(* carries senderId, receiverId and isRead.                                *)
(***************************************************************************)
\* The number of messages created in a run.
MaxMessages == 2

\* req.body.receiverId: empty, or the id of a user.
ReceiverInputs == {Null, 2, 4}

\* req.params.id: the messages that may exist, and an id of no message.
MessageTargets == {1, 2, 9}

OutsideMessages == <<core, users, clients, bulk, timelineVars, dbVars, assigned,
                     timeEntries, billed>>

\* POST /api/messages: isRead is not among the fields taken from the body,
\* so the schema default applies whatever the body says.
PostMessage(u, receiverId, isRead) ==
  /\ Cardinality(messages) < MaxMessages
  /\ IF receiverId = Null
       THEN view' = Respond("postMessage", u, 0, 400) /\ UNCHANGED messages
       ELSE LET id == Cardinality(messages) + 1 IN
              /\ messages' = messages \cup
                   {[id |-> id, senderId |-> u.id, receiverId |-> receiverId,
                     isRead |-> FALSE]}
              /\ view' = Respond("postMessage", u, id, 201)
  /\ UNCHANGED OutsideMessages

\* A handler that lets any authenticated user mark the message.
MarkReadByAnyone(u, id) ==
  /\ IF ~(\E m \in messages : m.id = id)
       THEN view' = Respond("markRead", u, id, 404) /\ UNCHANGED messages
     ELSE /\ messages' = {IF m.id = id THEN [m EXCEPT !.isRead = TRUE] ELSE m :
                            m \in messages}
          /\ view' = Respond("markRead", u, id, 200)
  /\ UNCHANGED OutsideMessages

\* PATCH /api/messages/:id/read
MarkRead(u, id) ==
  /\ IF ~(\E m \in messages : m.id = id)
       THEN view' = Respond("markRead", u, id, 404) /\ UNCHANGED messages
     ELSE IF \E m \in messages : m.id = id /\ m.receiverId # u.id
       THEN view' = Respond("markRead", u, id, 403) /\ UNCHANGED messages
     ELSE /\ messages' = {IF m.id = id THEN [m EXCEPT !.isRead = TRUE] ELSE m :
                            m \in messages}
          /\ view' = Respond("markRead", u, id, 200)
  /\ UNCHANGED OutsideMessages

\* GET /api/messages/unread-count; the count is returned in target.
UnreadCount(u) ==
  /\ view' = Respond("unreadCount", u,
                     Cardinality({m \in messages :
                                    m.receiverId = u.id /\ ~m.isRead}), 200)
  /\ UNCHANGED messages
  /\ UNCHANGED OutsideMessages

\* The users of the directory, and nothing sent yet.
InitMessages ==
  /\ cases = {}
  /\ invoices = {}
  /\ clients = {}
  /\ users = UserDir
  /\ year = 2024
  /\ lastNow = [hi |-> 176230000, lo |-> 7]
  /\ proc = [p \in Procs |-> Idle]
  /\ nextId = 1
  /\ allocated = {}
  /\ fmtIn = [kind |-> "Case", year |-> 2024, count |-> 0]
  /\ fmtOut = <<>>
  /\ view = NoView
  /\ bulk = NoBulk
  /\ InitExt

NextMessages ==
  \/ \E u \in users, r \in ReceiverInputs, b \in BOOLEAN : PostMessage(u, r, b)
  \/ \E u \in users, id \in MessageTargets : MarkRead(u, id)
  \/ \E u \in users : UnreadCount(u)

SpecMessages == InitMessages /\ [][NextMessages]_vars

(***************************************************************************)
(* C25.  isRead of a persisted message goes from false to true only in a   *)
(* PATCH /api/messages/:id/read by its receiver; that request by any other *)
(* user answers 403 and changes no message; isRead never goes back to      *)
(* false and a message is created unread.                                  *)
(***************************************************************************)
C25_OnlyReceiverMarksRead ==
  [][/\ \A m \in messages : \E n \in messages' :
          /\ n.id = m.id
          /\ m.isRead => n.isRead
          /\ (~m.isRead /\ n.isRead)
               => /\ view'.op = "markRead" /\ view'.code = 200
                  /\ view'.target = m.id /\ view'.user = m.receiverId
     /\ \A n \in messages' : (\A m \in messages : m.id # n.id) => ~n.isRead
     /\ \A m \in messages :
          (view'.op = "markRead" /\ view'.target = m.id
           /\ view'.user # m.receiverId)
            => view'.code = 403 /\ messages' = messages]_vars

\* One message has been read, and the sender of an unread message was
\* refused.
C25_Witness ==
  /\ \E m \in messages : m.isRead /\ m.senderId # m.receiverId
  /\ \E m \in messages :
       /\ ~m.isRead /\ m.senderId # m.receiverId
       /\ view.op = "markRead" /\ view.code = 403
       /\ view.target = m.id /\ view.user = m.senderId

(***************************************************************************)
(* The assignment checks of POST /api/cases and POST /api/cases/bulk.  An  *)
(* id in a body is a string: the hexadecimal digits of an ObjectId in      *)
(* lower or upper case.  Casting the string gives the ObjectId whatever    *)
(* the case; toString() of an ObjectId gives the lower-case digits.        *)
(***************************************************************************)
\* The number of cases persisted in a run.
MaxCreated == 2

\* req.body.assignedLawyerId: the Admin, a Lawyer (also in upper case), a
\* Client, and an id of no user.
LawyerIdInputs ==
  [id : {1, 2, 4, 6}, upper : {FALSE}] \cup {[id |-> 2, upper |-> TRUE]}

\* req.body.clientId: a client, and an id of no client.
ClientIdInputs == [id : {1, 9}, upper : {FALSE}]

\* The fields of a case in a body that the checks read: every lawyer id
\* with the client that exists, and one case of a client that does not.
CaseInputs ==
  [clientId : {[id |-> 1, upper |-> FALSE]}, assignedLawyerId : LawyerIdInputs]
  \cup {[clientId |-> [id |-> 9, upper |-> FALSE],
         assignedLawyerId |-> [id |-> 2, upper |-> FALSE]]}

BulkInputs == UNION {[1 .. n -> CaseInputs] : n \in 1 .. MaxBulk}

CastId(s) == s.id

IdToString(id) == [id |-> id, upper |-> FALSE]

\* User.findById(assignedLawyerId) followed by the test of the role.
ValidLawyer(s) ==
  \E x \in users : x.id = CastId(s) /\ x.role \in {"Lawyer", "Admin"}

\* A handler without the restriction to the requester.
NotSelfNever(u, s) == FALSE

\* req.user.role !== 'Admin' && assignedLawyerId !== req.user._id.toString()
NotSelf(u, s) == u.role # "Admin" /\ s # IdToString(u.id)

OutsideAssign == <<core, users, clients, bulk, timelineVars, dbVars, messages,
                   timeEntries, billed>>

NewCase(u, c, via, id) ==
  [id |-> id, clientId |-> CastId(c.clientId),
   assignedLawyerId |-> CastId(c.assignedLawyerId), createdBy |-> u.id,
   via |-> via]

\* POST /api/cases; saves: whether caseItem.save() resolves.
CreateCase(u, c, saves) ==
  /\ Cardinality(assigned) < MaxCreated
  /\ IF ~Authorized(u, {"Admin", "Lawyer"})
       THEN view' = Respond("createCase", u, 0, 403) /\ UNCHANGED assigned
     ELSE IF ~(\E x \in clients : x.id = CastId(c.clientId))
       THEN view' = Respond("createCase", u, 0, 400) /\ UNCHANGED assigned
     ELSE IF ~ValidLawyer(c.assignedLawyerId)
       THEN view' = Respond("createCase", u, 0, 400) /\ UNCHANGED assigned
     ELSE IF NotSelf(u, c.assignedLawyerId)
       THEN view' = Respond("createCase", u, 0, 403) /\ UNCHANGED assigned
     ELSE IF ~saves
       THEN view' = Respond("createCase", u, 0, 500) /\ UNCHANGED assigned
     ELSE LET id == Cardinality(assigned) + 1 IN
            /\ assigned' = assigned \cup {NewCase(u, c, "post", id)}
            /\ view' = Respond("createCase", u, id, 201)
  /\ UNCHANGED OutsideAssign

\* lawyerMap.get(caseData.assignedLawyerId): the map is keyed by
\* l._id.toString() of the lawyers User.find returned.
InLawyerMap(s) == ValidLawyer(s) /\ s = IdToString(CastId(s))

\* clientMap.get(caseData.clientId)
InClientMap(s) ==
  (\E x \in clients : x.id = CastId(s)) /\ s = IdToString(CastId(s))

\* The items of a bulk body that pass the three checks of the loop.
Accepted(u, items) ==
  {j \in 1 .. Len(items) :
     /\ InClientMap(items[j].clientId)
     /\ InLawyerMap(items[j].assignedLawyerId)
     /\ ~NotSelf(u, items[j].assignedLawyerId)}

\* The ids the loop gives to the documents it builds, in index order.
Rank(S, j) == Cardinality({k \in S : k <= j})

\* POST /api/cases/bulk, every save() resolving.
CreateCases(u, items) ==
  /\ Cardinality(assigned) + Cardinality(Accepted(u, items)) <= MaxCreated
  /\ IF ~Authorized(u, {"Admin", "Lawyer"})
       THEN view' = Respond("createCases", u, 0, 403) /\ UNCHANGED assigned
       ELSE LET ok == Accepted(u, items)
                base == Cardinality(assigned)
            IN /\ assigned' = assigned \cup
                    {NewCase(u, items[j], "bulk", base + Rank(ok, j)) : j \in ok}
               /\ view' = Respond("createCases", u, Cardinality(ok),
                                  BulkStatus(Cardinality(ok),
                                             Len(items) - Cardinality(ok)))
  /\ UNCHANGED OutsideAssign

\* The users of the directory and one client; no case yet.
InitAssign ==
  /\ cases = {}
  /\ invoices = {}
  /\ clients = {[id |-> 1, email |-> "c1", lawyer |-> Null]}
  /\ users = UserDir
  /\ year = 2024
  /\ lastNow = [hi |-> 176230000, lo |-> 7]
  /\ proc = [p \in Procs |-> Idle]
  /\ nextId = 1
  /\ allocated = {}
  /\ fmtIn = [kind |-> "Case", year |-> 2024, count |-> 0]
  /\ fmtOut = <<>>
  /\ view = NoView
  /\ bulk = NoBulk
  /\ InitExt

\* The users that send the requests: the Admin, two Lawyers and a Client.
Requesters == {u \in users : u.id \in 1 .. 4}

NextAssign ==
  \/ \E u \in Requesters, c \in CaseInputs, s \in BOOLEAN : CreateCase(u, c, s)
  \/ \E u \in Requesters, items \in BulkInputs : CreateCases(u, items)

SpecAssign == InitAssign /\ [][NextAssign]_vars

(***************************************************************************)
(* C26.  Every case persisted for a requester who is not Admin is assigned *)
(* to the requester, and every persisted case is assigned to an existing   *)
(* user whose role is Lawyer or Admin.                                     *)
(***************************************************************************)
C26_AssignsToSelf ==
  \A c \in assigned :
    /\ (\E x \in users : x.id = c.createdBy /\ x.role # "Admin")
         => c.assignedLawyerId = c.createdBy
    /\ \E x \in users : x.id = c.assignedLawyerId /\ x.role \in {"Lawyer", "Admin"}

\* A Lawyer has created a case through each route, and a bulk request of
\* a Lawyer had an item refused.
C26_Witness ==
  /\ \E c \in assigned : c.via = "post" /\ c.createdBy = 2
  /\ \E c \in assigned : c.via = "bulk" /\ c.createdBy = 2
  /\ view.op = "createCases" /\ view.code = 207 /\ view.user = 2

(***************************************************************************)
(* PUT /api/users/:id.  The route requires authentication only.  A body    *)
(* is modelled by the two fields the claims are about: isActive ("none":   *)
(* absent, "true", "false", "maybe": not a boolean) and role.              *)
(***************************************************************************)
UserBodies == [isActive : {"none", "true", "false", "maybe"},
               role : {"none", "Admin"}]

\* The response to PUT /api/users/:id, with the body that was sent.
UserResponse(u, id, code, body) ==
  [op |-> "putUser", user |-> u.id, target |-> id, code |-> code, cases |-> {},
   invoices |-> {}, clients |-> {}, sent |-> body]

\* A handler that passes isActive on whoever sends it.
WithoutIsActiveNever(u, body) == body

\* if (req.body.isActive !== undefined && req.user.role !== 'Admin')
\*   delete req.body.isActive;
WithoutIsActive(u, body) ==
  IF body.isActive # "none" /\ u.role # "Admin"
    THEN [body EXCEPT !.isActive = "none"]
    ELSE body

\* { $set: req.body } applied to the user document.
SetFields(x, body) ==
  [x EXCEPT !.isActive = IF body.isActive = "none" THEN @
                         ELSE body.isActive = "true",
            !.role = IF body.role = "none" THEN @ ELSE body.role]

PutUser(u, id, body) ==
  /\ IF body.isActive \notin {"none", "true", "false"}
       THEN view' = UserResponse(u, id, 400, body) /\ UNCHANGED users
     ELSE IF u.role # "Admin" /\ u.id # id
       THEN view' = UserResponse(u, id, 403, body) /\ UNCHANGED users
     ELSE IF ~(\E x \in users : x.id = id)
       THEN view' = UserResponse(u, id, 404, body) /\ UNCHANGED users
     ELSE /\ users' = {IF x.id = id THEN SetFields(x, WithoutIsActive(u, body))
                       ELSE x : x \in users}
          /\ view' = UserResponse(u, id, 200, body)
  /\ UNCHANGED <<core, clients, bulk, ext>>

NextProfile ==
  \/ \E u \in users, id \in UserIdInputs, b \in UserBodies : PutUser(u, id, b)
  \/ \E u \in users, id \in UserIdInputs : DeleteUser(u, id)

SpecProfile == InitMessages /\ [][NextProfile]_vars

\* The request answered in this step was sent by a user who was not Admin.
ByNonAdmin ==
  /\ view'.op = "putUser"
  /\ \E x \in users : x.id = view'.user /\ x.role # "Admin"

(***************************************************************************)
(* C27, as stated.  A PUT /api/users/:id by a requester who is not Admin   *)
(* leaves the isActive flag of every user as it was, whatever the body;    *)
(* aimed at another user's id it answers 403 and changes nothing.          *)
(***************************************************************************)
C27_AsStated ==
  [][ByNonAdmin =>
       /\ \A x \in users : \E y \in users' :
            y.id = x.id /\ y.isActive = x.isActive
       /\ view'.target # view'.user
            => view'.code = 403 /\ users' = users]_vars

(***************************************************************************)
(* C27, amended.  A PUT /api/users/:id by a requester who is not Admin     *)
(* leaves the isActive flag of every user as it was, whatever the body;    *)
(* aimed at another user's id it changes nothing and answers 403, or 400   *)
(* when the body fails validation.                                         *)
(***************************************************************************)
C27_OnlyAdminSetsIsActive ==
  [][ByNonAdmin =>
       /\ \A x \in users : \E y \in users' :
            y.id = x.id /\ y.isActive = x.isActive
       /\ view'.target # view'.user
            => /\ users' = users
               /\ view'.code = IF view'.sent.isActive = "maybe" THEN 400
                               ELSE 403]_vars

\* A Lawyer who is active sent isActive false for the own profile and was
\* answered 200.
C27_Witness ==
  /\ view.op = "putUser" /\ view.code = 200
  /\ view.user = 2 /\ view.target = 2 /\ view.sent.isActive = "false"
  /\ \E x \in users : x.id = 2 /\ x.role = "Lawyer" /\ x.isActive

(***************************************************************************)
(* C28.  A PUT /api/users/:id by a requester who is not Admin leaves the   *)
(* role of every user, the requester included, as it was.                  *)
(***************************************************************************)
C28_NoPrivilegeRaise ==
  [][ByNonAdmin =>
       \A x \in users : \E y \in users' : y.id = x.id /\ y.role = x.role]_vars

(***************************************************************************)
(* Derived amounts of the billing models.  save() validates first (a       *)
(* required path must be set, a number must not be below min) and then     *)
(* runs the pre('save') hooks: those of the items of an invoice before     *)
(* that of the invoice.  A path is modified when the constructor was given *)
(* it, or when it was set to a value other than the loaded one; a path     *)
(* that only has its schema default is not modified.  Unset is -1.         *)
(***************************************************************************)
\* The number of time entries and the number of invoices saved in a run.
MaxBilled == 2

Unset == -1

Hours == {0, 2}

Rates == {3}

\* The values a caller may give to amount or totalAmount.
Amounts == {Unset, 0, 5}

RECURSIVE SumAmounts(_)
\* this.items.reduce((sum, item) => sum + item.amount, 0)
SumAmounts(items) ==
  IF items = <<>> THEN 0
  ELSE items[1].amount + SumAmounts(Tail(items))

\* timeEntrySchema.pre('save')
EntryHook(e, mod) ==
  IF "hours" \in mod \/ "hourlyRate" \in mod
    THEN [e EXCEPT !.amount = e.hours * e.hourlyRate]
    ELSE e

\* invoiceItemSchema.pre('save'); mod: the paths of the item that are
\* modified.
ItemHook(item, mod) ==
  IF "quantity" \in mod \/ "rate" \in mod
    THEN [item EXCEPT !.amount = item.quantity * item.rate]
    ELSE item

\* invoiceSchema.pre('save') after the hooks of the items; mods[j]: the
\* modified paths of item j; mod: the modified paths of the invoice.
InvoiceHook(v, mods, mod) ==
  LET items == [j \in 1 .. Len(v.items) |-> ItemHook(v.items[j], mods[j])]
      changed == "items" \in mod \/ \E j \in 1 .. Len(mods) : mods[j] # {}
  IN [v EXCEPT !.items = items,
               !.totalAmount = IF changed THEN SumAmounts(items) ELSE @]

\* Validation of the required numbers of a time entry and of an invoice.
EntryInvalid(e) == e.hours < 0 \/ e.hourlyRate < 0 \/ e.amount < 0

InvoiceInvalid(v) ==
  \/ v.totalAmount < 0
  \/ \E j \in 1 .. Len(v.items) :
       v.items[j].quantity < 0 \/ v.items[j].rate < 0 \/ v.items[j].amount < 0

\* The items a caller may give: quantity and rate set, amount as it likes.
ItemInputs == [quantity : Hours, rate : Rates, amount : Amounts]

\* req.body.items / the items given to new Invoice: none, or one or two.
ItemLists == {<<>>} \cup {<<i>> : i \in ItemInputs}
             \cup {<<i, [quantity |-> 2, rate |-> 3, amount |-> 0]>> :
                     i \in {x \in ItemInputs : x.amount = 5}}

OutsideBilling == <<core, users, clients, bulk, timelineVars, dbVars, messages,
                    assigned>>

BillingResponse(op, code) == [NoView EXCEPT !.op = op, !.code = code]

\* POST /api/billing/time-entries: the document is built without amount,
\* whatever the body holds, so its validation fails and the catch answers
\* 500; valid: whether the validators and the lookup of the case pass.
PostTimeEntry(hours, hourlyRate, amount, valid) ==
  /\ Cardinality(timeEntries) < MaxBilled
  /\ LET e == [id |-> Cardinality(timeEntries) + 1, hours |-> hours,
               hourlyRate |-> hourlyRate, amount |-> Unset]
     IN IF ~valid
          THEN view' = BillingResponse("postTimeEntry", 400)
               /\ UNCHANGED timeEntries
        ELSE IF EntryInvalid(e)
          THEN view' = BillingResponse("postTimeEntry", 500)
               /\ UNCHANGED timeEntries
        ELSE /\ timeEntries' = timeEntries \cup
                  {EntryHook(e, {"hours", "hourlyRate"})}
             /\ view' = BillingResponse("postTimeEntry", 201)
  /\ UNCHANGED billed
  /\ UNCHANGED OutsideBilling

\* new TimeEntry({ hours, hourlyRate, amount, ... }).save({ validateBeforeSave })
SaveTimeEntry(hours, hourlyRate, amount, validate) ==
  /\ Cardinality(timeEntries) < MaxBilled
  /\ LET e == [id |-> Cardinality(timeEntries) + 1, hours |-> hours,
               hourlyRate |-> hourlyRate, amount |-> amount]
         mod == {"hours", "hourlyRate"} \cup
                (IF amount # Unset THEN {"amount"} ELSE {})
     IN IF validate /\ EntryInvalid(e)
          THEN view' = BillingResponse("saveTimeEntry", 500)
               /\ UNCHANGED timeEntries
          ELSE /\ timeEntries' = timeEntries \cup {EntryHook(e, mod)}
               /\ view' = BillingResponse("saveTimeEntry", 201)
  /\ UNCHANGED billed
  /\ UNCHANGED OutsideBilling

\* entry = await TimeEntry.findById(id); entry[path] = value; entry.save()
ResaveTimeEntry(id, path, value) ==
  /\ \E e \in timeEntries :
       /\ e.id = id
       /\ LET set == [e EXCEPT ![path] = value]
              mod == IF e[path] # value THEN {path} ELSE {}
          IN IF EntryInvalid(set)
               THEN view' = BillingResponse("resaveTimeEntry", 500)
                    /\ UNCHANGED timeEntries
               ELSE /\ timeEntries' = (timeEntries \ {e}) \cup {EntryHook(set, mod)}
                    /\ view' = BillingResponse("resaveTimeEntry", 200)
  /\ UNCHANGED billed
  /\ UNCHANGED OutsideBilling

\* POST /api/billing/invoices: the document is built from clientId,
\* issueDate, dueDate, items, caseIds and createdBy; invoiceNumber and
\* totalAmount are required and unset, so its validation fails and the
\* catch answers 500.
PostInvoiceItems(items, valid) ==
  /\ Cardinality(billed) < MaxBilled
  /\ LET v == [id |-> Cardinality(billed) + 1, items |-> items,
               totalAmount |-> Unset]
     IN IF ~valid \/ items = <<>>
          THEN view' = BillingResponse("postInvoice", 400) /\ UNCHANGED billed
        ELSE IF InvoiceInvalid(v)
          THEN view' = BillingResponse("postInvoice", 500) /\ UNCHANGED billed
        ELSE /\ billed' = billed \cup
                  {InvoiceHook(v, [j \in 1 .. Len(items) |-> {"quantity", "rate"}],
                               {"items"})}
             /\ view' = BillingResponse("postInvoice", 201)
  /\ UNCHANGED timeEntries
  /\ UNCHANGED OutsideBilling

\* new Invoice({ items, totalAmount, ... }).save({ validateBeforeSave });
\* with no items given the array has its default and is not modified.
SaveInvoice(items, totalAmount, validate) ==
  /\ Cardinality(billed) < MaxBilled
  /\ LET v == [id |-> Cardinality(billed) + 1, items |-> items,
               totalAmount |-> totalAmount]
         mods == [j \in 1 .. Len(items) |-> {"quantity", "rate"}]
         mod == IF items # <<>> THEN {"items"} ELSE {}
     IN IF validate /\ InvoiceInvalid(v)
          THEN view' = BillingResponse("saveInvoice", 500) /\ UNCHANGED billed
          ELSE /\ billed' = billed \cup {InvoiceHook(v, mods, mod)}
               /\ view' = BillingResponse("saveInvoice", 201)
  /\ UNCHANGED timeEntries
  /\ UNCHANGED OutsideBilling

\* invoice = await Invoice.findById(id); invoice.items[0][path] = value;
\* invoice.save()
ResaveInvoiceItem(id, path, value) ==
  /\ \E v \in billed :
       /\ v.id = id /\ v.items # <<>>
       /\ LET set == [v EXCEPT !.items[1][path] = value]
              mods == [j \in 1 .. Len(v.items) |->
                         IF j = 1 /\ v.items[1][path] # value THEN {path} ELSE {}]
          IN IF InvoiceInvalid(set)
               THEN view' = BillingResponse("resaveInvoice", 500)
                    /\ UNCHANGED billed
               ELSE /\ billed' = (billed \ {v}) \cup {InvoiceHook(set, mods, {})}
                    /\ view' = BillingResponse("resaveInvoice", 200)
  /\ UNCHANGED timeEntries
  /\ UNCHANGED OutsideBilling

NextBilling ==
  \/ \E h \in Hours, r \in Rates, a \in Amounts, ok \in BOOLEAN :
       PostTimeEntry(h, r, a, ok)
  \/ \E h \in Hours, r \in Rates, a \in Amounts, v \in BOOLEAN :
       SaveTimeEntry(h, r, a, v)
  \/ \E id \in 1 .. MaxBilled, h \in Hours : ResaveTimeEntry(id, "hours", h)
  \/ \E id \in 1 .. MaxBilled, a \in Amounts \ {Unset} :
       ResaveTimeEntry(id, "amount", a)
  \/ \E items \in ItemLists, ok \in BOOLEAN : PostInvoiceItems(items, ok)
  \/ \E items \in ItemLists, t \in Amounts, v \in BOOLEAN :
       SaveInvoice(items, t, v)
  \/ \E id \in 1 .. MaxBilled, q \in Hours : ResaveInvoiceItem(id, "quantity", q)
  \/ \E id \in 1 .. MaxBilled, a \in Amounts \ {Unset} :
       ResaveInvoiceItem(id, "amount", a)

SpecBilling == InitMessages /\ [][NextBilling]_vars

(***************************************************************************)
(* C29.  Every persisted time entry has amount = hours * hourlyRate, and   *)
(* every persisted invoice has totalAmount equal to the sum of the amounts *)
(* of its items, each item having amount = quantity * rate.                *)
(***************************************************************************)
C29_DerivedAmounts ==
  /\ \A e \in timeEntries : e.amount = e.hours * e.hourlyRate
  /\ \A v \in billed :
       /\ v.totalAmount = SumAmounts(v.items)
       /\ \A j \in 1 .. Len(v.items) :
            v.items[j].amount = v.items[j].quantity * v.items[j].rate

====
